---- MODULE Spec2Model ----
(***************************************************************************)
(* Model of the fuel-finder sync / reconciliation engine.                  *)
(*                                                                         *)
(*   - the Convex store: tables stations, fuelPrices, syncLog, syncState   *)
(*   - the store mutations: upsertStation, batchUpsertStations, addPrice,  *)
(*     batchAddPrices, startSync, completeSync, failSync, setSyncState     *)
(*   - the sync entry points that drive them (Convex actions syncStations  *)
(*     and syncPrices, the cron handler, the daemon, sync-local)           *)
(*   - the station lookup getStationIdsBatch and the daemon's station map  *)
(*   - the browser's FuelFinderClient: its cached OAuth token and the      *)
(*     calls of the protected endpoints                                    *)
(*                                                                         *)
(* Units.  Time is in milliseconds (Date.now()).  A price is a number of   *)
(* pence held in hundredths of a penny, so that 126.94p is 12694 and the   *)
(* roundings of the code (Math.round(x), Math.round(x * 10) / 10) are not  *)
(* the identity.                                                           *)
(*                                                                         *)
(* A Convex mutation is a serializable transaction: each mutation handler  *)
(* is one atomic action.  An action (in Convex's sense) or a script is a   *)
(* sequence of awaited calls: one model step per awaited call.             *)
(***************************************************************************)
EXTENDS Integers, Sequences, FiniteSets, TLC

VARIABLES
    now,         \* Date.now(), milliseconds
    ticks,       \* number of clock advances so far (bounds the model)
    stations,    \* table stations, in creation order
    fuelPrices,  \* table fuelPrices, in creation order
    priceIds,    \* number of fuelPrices rows ever inserted (ids are not reused)
    syncLog,     \* table syncLog, in creation order
    syncState,   \* table syncState: key -> value, a time (0: no row)
    last,        \* the last store call: [op, args, ret, pre (rows before it)]
    run,         \* the sync run in flight (its local variables)
    client       \* the FuelFinderClient object and its call in flight

vars == <<now, ticks, stations, fuelPrices, priceIds, syncLog, syncState, last,
          run, client>>

----------------------------------------------------------------------------
(* Bounds of the model *)

MaxTicks == 1        \* clock advances
MaxPriceRows == 2    \* fuelPrices rows ever inserted
MaxBatchLen == 2     \* length of the array argument of a batch mutation
MaxRuns == 1         \* sync runs started
MaxBatches == 3      \* batch requests of one run
MaxRecords == 1      \* followed records in the batches of one run
MaxUpdates == 3      \* price records of a batch whose records are all followed
MaxCalls == 2        \* calls of the client's public methods
MaxRequests == 3     \* requests of one client call to the protected endpoint
MaxIds == 2          \* length of a short list of external ids to look up
MaxChars == 8        \* length of a postcode string to normalise
MaxStationRecords == 2   \* station records of a short fetched list
MaxTimerRuns == 2    \* callbacks of the daemon's interval timer

(* Program constants *)

HourMs == 3600000    \* 60 * 60 * 1000

DayMs == 86400000    \* 24 * 60 * 60 * 1000

MinPostcodeLen == 5  \* cleaned.length < 5

MaxPostcodeLen == 7  \* cleaned.length > 7

InwardLen == 3       \* cleaned.slice(-3)

----------------------------------------------------------------------------
(* Value domains *)

Absent == "absent"   \* an optional field that is not set (undefined)

NoRow == [id |-> 0]  \* .first() of an empty query: null

Min(a, b) == IF a <= b THEN a ELSE b

\* Sequences over S of length 1..n
SeqsUpTo(S, n) == UNION {[1..k -> S] : k \in 1..n}

\* The clock advances by one millisecond, by one hour or by one hour and 1 ms
ClockSteps == {1, HourMs, HourMs + 1}

----------------------------------------------------------------------------
(* The clock *)

Tick(d) ==
    /\ ticks < MaxTicks
    /\ now' = now + d
    /\ ticks' = ticks + 1
    /\ last' = [op |-> "tick", args |-> <<>>, ret |-> <<>>, pre |-> 0]
    /\ UNCHANGED <<stations, fuelPrices, priceIds, syncLog, syncState, run,
                   client>>

----------------------------------------------------------------------------
(* fuelPrices: the price reconciler (convex/fuelPrices.ts) *)

\* .withIndex("by_station_fuel_time", q => q.eq(stationId).eq(fuelType))
KeyRows(prices, s, f) ==
    {prices[i] : i \in {j \in 1..Len(prices) :
        prices[j].stationId = s /\ prices[j].fuelType = f}}

\* Index order of by_station_fuel_time within one key: recordedAt, then
\* creation order (Convex appends _creationTime to every index).
IndexBefore(r1, r2) ==
    \/ r1.recordedAt < r2.recordedAt
    \/ r1.recordedAt = r2.recordedAt /\ r1.id < r2.id

\* MostRecent without the index range: the latest row of the table
MostRecentOfAnyKey(prices, s, f) ==
    LET rows == {prices[j] : j \in 1..Len(prices)}
    IN  IF rows = {} THEN NoRow
        ELSE CHOOSE r \in rows : \A r2 \in rows : r2 = r \/ IndexBefore(r2, r)

\* .order("desc").first()
MostRecent(prices, s, f) ==
    LET rows == KeyRows(prices, s, f)
    IN  IF rows = {} THEN NoRow
        ELSE CHOOSE r \in rows : \A r2 \in rows : r2 = r \/ IndexBefore(r2, r)

\* ShouldInsert with the hour taken in seconds
ShouldInsertSeconds(existing, price, recordedAt) ==
    \/ existing = NoRow
    \/ existing.price # price
    \/ recordedAt - existing.recordedAt > 60 * 60

\* ShouldInsert with >= for >
ShouldInsertMutant(existing, price, recordedAt) ==
    \/ existing = NoRow
    \/ existing.price # price
    \/ recordedAt - existing.recordedAt >= HourMs

\* if (!existing || existing.price !== args.price ||
\*     recordedAt - existing.recordedAt > 60 * 60 * 1000)
ShouldInsert(existing, price, recordedAt) ==
    \/ existing = NoRow
    \/ existing.price # price
    \/ recordedAt - existing.recordedAt > HourMs

\* ctx.db.insert("fuelPrices", {...args, recordedAt})
NewPriceRow(a, recordedAt, id) ==
    [id |-> id, stationId |-> a.stationId, fuelType |-> a.fuelType,
     price |-> a.price, recordedAt |-> recordedAt,
     sourceTimestamp |-> a.sourceTimestamp]

\* The handler of addPrice on table contents `prices` with `n` ids used:
\* the new contents, the new id count and the returned id.
AddPriceTo(prices, n, a, recordedAt) ==
    LET existing == MostRecent(prices, a.stationId, a.fuelType)
    IN  IF ShouldInsert(existing, a.price, recordedAt)
        THEN [prices |-> Append(prices, NewPriceRow(a, recordedAt, n + 1)),
              n |-> n + 1, ret |-> n + 1]
        ELSE [prices |-> prices, n |-> n, ret |-> existing.id]

\* One iteration of the loop of batchAddPrices: the decision of addPrice for
\* one element, its id pushed onto results.
BatchStep(acc, a, recordedAt) ==
    LET one == AddPriceTo(acc.prices, acc.n, a, recordedAt)
    IN  [prices |-> one.prices, n |-> one.n, ret |-> Append(acc.ret, one.ret)]

\* The loop of batchAddPrices: each element in turn, each seeing the rows the
\* earlier elements inserted.
RECURSIVE BatchAddFrom(_, _, _)
BatchAddFrom(acc, as, recordedAt) ==
    IF as = <<>> THEN acc
    ELSE BatchAddFrom(BatchStep(acc, Head(as), recordedAt), Tail(as), recordedAt)

BatchAddTo(prices, n, as, recordedAt) ==
    BatchAddFrom([prices |-> prices, n |-> n, ret |-> <<>>], as, recordedAt)

StationIds == {1}

FuelTypes == {"E10", "Diesel"}

\* Stored price values (hundredths of a penny): 45p, 126p
PriceValues == {4500, 12600}

PriceArgs ==
    [stationId : StationIds, fuelType : FuelTypes, price : PriceValues,
     sourceTimestamp : {"t"}]

AddPrice(a) ==
    \E r \in {AddPriceTo(fuelPrices, priceIds, a, now)} :
        /\ r.n <= MaxPriceRows
        /\ fuelPrices' = r.prices
        /\ priceIds' = r.n
        /\ last' = [op |-> "addPrice", args |-> <<a>>, ret |-> <<r.ret>>,
                    pre |-> Len(fuelPrices)]
        /\ UNCHANGED <<now, ticks, client, stations, syncLog, syncState, run>>

BatchAddPrices(as) ==
    \E r \in {BatchAddTo(fuelPrices, priceIds, as, now)} :
        /\ r.n <= MaxPriceRows
        /\ fuelPrices' = r.prices
        /\ priceIds' = r.n
        /\ last' = [op |-> "batchAddPrices", args |-> as, ret |-> r.ret,
                    pre |-> Len(fuelPrices)]
        /\ UNCHANGED <<now, ticks, client, stations, syncLog, syncState, run>>

\* The rows the queries of a handler read, with the rows as they were when
\* the call was made
TransactionReadsMutant(prices, invoked) == SubSeq(prices, 1, invoked)

\* The rows the queries of a handler read: the handler is the body of one
\* `mutation`, which Convex runs as one transaction, so that its reads and
\* its inserts see the table as it is when the handler runs, whatever the
\* table was when the call was made (`invoked` rows).
TransactionReads(prices, invoked) == prices

\* The handler of a call in flight, run on the table `prices`: the rows it
\* inserts follow the rows of the table.
RunHandler(prices, n, invoked, as, recordedAt) ==
    LET reads == TransactionReads(prices, invoked)
        r == BatchAddTo(reads, n, as, recordedAt)
    IN  [prices |-> prices \o SubSeq(r.prices, Len(reads) + 1, Len(r.prices)),
         n |-> r.n, ret |-> r.ret]

\* The argument arrays of a call: one element for addPrice
MutationCalls == SeqsUpTo(PriceArgs, MaxBatchLen)

\* The calls whose candidates are candidates of the call c: the same keys
\* with the same prices
SameKeyCalls(c) ==
    {d \in MutationCalls : \A j \in 1..Len(d) : \E i \in 1..Len(c) : d[j] = c[i]}

\* Two callers call addPrice or batchAddPrices before either handler has run
InvokeTwo(c1, c2) ==
    /\ last.op # "inFlight"
    /\ last' = [op |-> "inFlight", args |-> <<c1, c2>>, ret |-> <<>>,
                pre |-> Len(fuelPrices)]
    /\ UNCHANGED <<now, ticks, client, stations, fuelPrices, priceIds, syncLog,
                   syncState, run>>

\* The handler of call k in flight runs; ret records, in the order the
\* handlers ran, the call, its result and the rows before it.
RunMutation(k) ==
    /\ last.op = "inFlight"
    /\ \A j \in 1..Len(last.ret) : last.ret[j].call # k
    /\ \E r \in {RunHandler(fuelPrices, priceIds, last.pre, last.args[k], now)} :
        /\ r.n <= MaxPriceRows
        /\ fuelPrices' = r.prices
        /\ priceIds' = r.n
        /\ last' = [last EXCEPT !.ret = Append(@, [call |-> k, ids |-> r.ret,
                                                   pre |-> Len(fuelPrices)])]
    /\ UNCHANGED <<now, ticks, client, stations, syncLog, syncState, run>>

\* .withIndex("by_station", q => q.eq("stationId", stationId)).collect():
\* the rows of the station in the order of their creation
StationRows(prices, s) == SelectSeq(prices, LAMBDA r : r.stationId = s)

\* The loop of getCurrentPrices over the rows: currentPrices maps a fuel type
\* to the first row with the greatest recordedAt so far, keys lists the fuel
\* types in the order in which they were set
RECURSIVE CurrentFrom(_, _)
CurrentFrom(acc, rows) ==
    IF rows = <<>> THEN acc
    ELSE LET price == Head(rows)
             f == price.fuelType
         IN  IF acc.currentPrices[f] = NoRow
             THEN CurrentFrom([currentPrices |->
                                  [acc.currentPrices EXCEPT ![f] = price],
                               keys |-> Append(acc.keys, f)], Tail(rows))
             ELSE IF price.recordedAt > acc.currentPrices[f].recordedAt
             THEN CurrentFrom([acc EXCEPT !.currentPrices[f] = price],
                              Tail(rows))
             ELSE CurrentFrom(acc, Tail(rows))

\* Object.values(currentPrices)
GetCurrentPricesOf(prices, s) ==
    LET c == CurrentFrom([currentPrices |-> [f \in FuelTypes |-> NoRow],
                          keys |-> <<>>], StationRows(prices, s))
    IN  [k \in 1..Len(c.keys) |-> c.currentPrices[c.keys[k]]]

\* The query getCurrentPrices({stationId})
GetCurrentPrices(s) ==
    /\ last' = [op |-> "getCurrentPrices", args |-> <<s>>,
                ret |-> GetCurrentPricesOf(fuelPrices, s),
                pre |-> Len(fuelPrices)]
    /\ UNCHANGED <<now, ticks, client, stations, fuelPrices, priceIds, syncLog,
                   syncState, run>>

\* api.sync.cleanupBadPrices, run by scripts/cleanup-bad-prices.ts: "Removes
\* all prices below 50p"; it reports the number of rows it deleted.
BadPrice(r) == r.price < 50 * 100

CleanupBadPrices ==
    /\ \E i \in 1..Len(fuelPrices) : BadPrice(fuelPrices[i])
    /\ fuelPrices' = SelectSeq(fuelPrices, LAMBDA r : ~BadPrice(r))
    /\ last' = [op |-> "cleanupBadPrices", args |-> <<>>,
                ret |-> <<Len(fuelPrices) - Len(fuelPrices')>>,
                pre |-> Len(fuelPrices)]
    /\ UNCHANGED <<now, ticks, client, stations, priceIds, syncLog, syncState, run>>

----------------------------------------------------------------------------
(* stations: upsert by externalId (convex/stations.ts) *)

\* External station ids (node_id / station_id), numbered
ExternalIds == {1, 2}

\* The descriptive fields of an upsert: a required one (name) and an optional
\* one (brand), which a caller may leave out.
StationFields == {[name |-> "n1", brand |-> "b1"], [name |-> "n2", brand |-> Absent]}

\* The arguments of an upsert
StationArgs ==
    {[externalId |-> e, name |-> f.name, brand |-> f.brand] :
        e \in ExternalIds, f \in StationFields}

\* .withIndex("by_external_id", q => q.eq("externalId", id)).first()
ByExternalId(rows, e) ==
    LET hits == {i \in 1..Len(rows) : rows[i].externalId = e}
    IN  IF hits = {} THEN NoRow
        ELSE rows[CHOOSE i \in hits : \A j \in hits : i <= j]

\* ctx.db.patch(existing._id, {...args, lastSyncedAt: now}): a shallow merge.
\* A field that the arguments do not hold is left as it is.
PatchStation(row, a, t) ==
    [id |-> row.id, externalId |-> a.externalId, name |-> a.name,
     brand |-> IF a.brand = Absent THEN row.brand ELSE a.brand,
     lastSyncedAt |-> t]

\* ctx.db.insert("stations", {...args, lastSyncedAt: now})
NewStation(a, t, id) ==
    [id |-> id, externalId |-> a.externalId, name |-> a.name,
     brand |-> a.brand, lastSyncedAt |-> t]

\* UpsertStationTo without the lookup: every call inserts
UpsertStationToMutant(rows, a, t) ==
    [rows |-> Append(rows, NewStation(a, t, Len(rows) + 1)),
     ret |-> Len(rows) + 1]

\* The handler of upsertStation on table contents `rows`: the new contents
\* and the returned id.  Stations are never deleted: the next id is the
\* number of rows plus one.
UpsertStationTo(rows, a, t) ==
    LET existing == ByExternalId(rows, a.externalId)
    IN  IF existing # NoRow
        THEN [rows |-> [i \in 1..Len(rows) |->
                          IF rows[i].id = existing.id
                          THEN PatchStation(rows[i], a, t) ELSE rows[i]],
              ret |-> existing.id]
        ELSE [rows |-> Append(rows, NewStation(a, t, Len(rows) + 1)),
              ret |-> Len(rows) + 1]

\* The loop of batchUpsertStations, `now` read once before it
RECURSIVE BatchUpsertFrom(_, _, _)
BatchUpsertFrom(acc, as, t) ==
    IF as = <<>> THEN acc
    ELSE LET one == UpsertStationTo(acc.rows, Head(as), t)
         IN  BatchUpsertFrom([rows |-> one.rows, ret |-> Append(acc.ret, one.ret)],
                             Tail(as), t)

BatchUpsertTo(rows, as, t) == BatchUpsertFrom([rows |-> rows, ret |-> <<>>], as, t)

UpsertStation(a) ==
    \E r \in {UpsertStationTo(stations, a, now)} :
        /\ Len(r.rows) <= Cardinality(ExternalIds)
        /\ stations' = r.rows
        /\ last' = [op |-> "upsertStation", args |-> <<a>>, ret |-> <<r.ret>>,
                    pre |-> Len(stations)]
        /\ UNCHANGED <<now, ticks, client, fuelPrices, priceIds, syncLog, syncState, run>>

BatchUpsertStations(as) ==
    \E r \in {BatchUpsertTo(stations, as, now)} :
        /\ Len(r.rows) <= Cardinality(ExternalIds)
        /\ stations' = r.rows
        /\ last' = [op |-> "batchUpsertStations", args |-> as, ret |-> r.ret,
                    pre |-> Len(stations)]
        /\ UNCHANGED <<now, ticks, client, fuelPrices, priceIds, syncLog, syncState, run>>

----------------------------------------------------------------------------
(* stations: the lookup of many external ids (getStationIdsBatch) and the
   daemon's station map built from it *)

LookupCap == 500     \* Math.min(args.externalIds.length, 500)

\* getStationIdsBatch without the test `if (station)`
GetStationIdsBatchOfMutant(rows, externalIds) ==
    LET batchSize == Min(Len(externalIds), LookupCap)
    IN  [e \in {externalIds[i] : i \in 1..batchSize} |-> ByExternalId(rows, e).id]

\* getStationIdsBatch({externalIds}): result[externalId] = station._id for the
\* first batchSize ids that have a station
GetStationIdsBatchOf(rows, externalIds) ==
    LET batchSize == Min(Len(externalIds), LookupCap)
        found == {i \in 1..batchSize : ByExternalId(rows, externalIds[i]).id # 0}
    IN  [e \in {externalIds[i] : i \in found} |-> ByExternalId(rows, e).id]

\* [...new Set(ids)]: the ids in the order of their first occurrence, here
\* those of ids[lo..hi] (by halves, to keep the evaluation shallow)
RECURSIVE UniqueIn(_, _, _)
UniqueIn(ids, lo, hi) ==
    IF lo > hi THEN <<>>
    ELSE IF lo = hi
    THEN (IF \E j \in 1..(lo - 1) : ids[j] = ids[lo] THEN <<>> ELSE <<ids[lo]>>)
    ELSE UniqueIn(ids, lo, (lo + hi) \div 2)
         \o UniqueIn(ids, (lo + hi) \div 2 + 1, hi)

\* The daemon's loop over uniqueIds in slices of 500: the results of the
\* queries are put into one map, a later entry replacing an earlier one
RECURSIVE StationMapFrom(_, _, _)
StationMapFrom(rows, uniqueIds, i) ==
    IF i > Len(uniqueIds) THEN <<>>
    ELSE StationMapFrom(rows, uniqueIds, i + LookupCap)
         @@ GetStationIdsBatchOf(rows,
                SubSeq(uniqueIds, i, Min(i + LookupCap - 1, Len(uniqueIds))))

\* More than LookupCap - 2 distinct external ids of stations that the store
\* does not hold
Padding(n) == [k \in 1..n |-> k + 2]

\* The lists of external ids to look up: short lists over the ids 1, 2 (which
\* the store may hold) and 3 (which it never holds), and the lists of
\* LookupCap and of LookupCap + 1 ids that end with the id 1
IdLists ==
    {<<>>} \cup SeqsUpTo({1, 2, 3}, MaxIds)
    \cup {Padding(n) \o <<1>> : n \in {LookupCap - 1, LookupCap}}

\* A call of the query getStationIdsBatch
GetStationIdsBatch(externalIds) ==
    /\ last' = [op |-> "getStationIdsBatch", args |-> externalIds,
                ret |-> GetStationIdsBatchOf(stations, externalIds), pre |-> 0]
    /\ UNCHANGED <<now, ticks, client, stations, fuelPrices, priceIds, syncLog,
                   syncState, run>>

\* The daemon builds its station map for the ids of the fetched records
BuildStationMap(ids) ==
    /\ last' = [op |-> "stationMap", args |-> ids,
                ret |-> StationMapFrom(stations, UniqueIn(ids, 1, Len(ids)), 1),
                pre |-> 0]
    /\ UNCHANGED <<now, ticks, client, stations, fuelPrices, priceIds, syncLog,
                   syncState, run>>

\* The daemon's lookup calls: one getStationIdsBatch query per slice of 500
\* of uniqueIds, each call written as the list of external ids it carries
RECURSIVE BatchedLookups(_, _)
BatchedLookups(uniqueIds, i) ==
    IF i > Len(uniqueIds) THEN <<>>
    ELSE <<SubSeq(uniqueIds, i, Min(i + LookupCap - 1, Len(uniqueIds)))>>
         \o BatchedLookups(uniqueIds, i + LookupCap)

\* The lookup calls of the cron handler and of sync-local: one getByExternalId
\* query for every record whose id is not in the station map yet, and the map
\* gets the ids that have a station (here for ids[lo..hi], by halves)
RECURSIVE PointLookups(_, _, _, _)
PointLookups(rows, ids, lo, hi) ==
    IF lo > hi THEN <<>>
    ELSE IF lo = hi
    THEN (IF \E j \in 1..(lo - 1) :
                ids[j] = ids[lo] /\ ByExternalId(rows, ids[j]).id # 0
          THEN <<>> ELSE <<<<ids[lo]>>>>)
    ELSE PointLookups(rows, ids, lo, (lo + hi) \div 2)
         \o PointLookups(rows, ids, (lo + hi) \div 2 + 1, hi)

\* The lookup calls of the action syncPrices: one getByExternalId query for
\* every price update
RecordLookups(ids) == [k \in 1..Len(ids) |-> <<ids[k]>>]

\* The store lookups that a price sync makes for fetched records with the
\* external ids ids
LookupCallsOf(kind, rows, ids) ==
    IF kind = "daemon" THEN BatchedLookups(UniqueIn(ids, 1, Len(ids)), 1)
    ELSE IF kind = "syncPrices" THEN RecordLookups(ids)
    ELSE PointLookups(rows, ids, 1, Len(ids))

\* A price sync resolves the external ids of the records it fetched
ResolveStations(kind, ids) ==
    /\ last' = [op |-> "resolveStations", args |-> [kind |-> kind, ids |-> ids],
                ret |-> LookupCallsOf(kind, stations, ids), pre |-> 0]
    /\ UNCHANGED <<now, ticks, client, stations, fuelPrices, priceIds, syncLog,
                   syncState, run>>

----------------------------------------------------------------------------
(* normalizePostcode (src/lib/postcode-utils.ts and its copies in the sync
   code).  A string is the sequence of its characters. *)

\* Characters that \s and trim() take for white space
Whitespace == {" ", "\t"}

LowerLetters ==
    <<"a", "b", "c", "d", "e", "f", "g", "h", "i", "j", "k", "l", "m",
      "n", "o", "p", "q", "r", "s", "t", "u", "v", "w", "x", "y", "z">>

UpperLetters ==
    <<"A", "B", "C", "D", "E", "F", "G", "H", "I", "J", "K", "L", "M",
      "N", "O", "P", "Q", "R", "S", "T", "U", "V", "W", "X", "Y", "Z">>

ToUpperChar(c) ==
    IF \E i \in 1..Len(LowerLetters) : LowerLetters[i] = c
    THEN UpperLetters[CHOOSE i \in 1..Len(LowerLetters) : LowerLetters[i] = c]
    ELSE c

\* s.toUpperCase()
ToUpperCase(s) == [k \in 1..Len(s) |-> ToUpperChar(s[k])]

\* s.replace(/\s+/g, '')
RECURSIVE RemoveWhitespace(_)
RemoveWhitespace(s) ==
    IF s = <<>> THEN <<>>
    ELSE (IF Head(s) \in Whitespace THEN <<>> ELSE <<Head(s)>>)
         \o RemoveWhitespace(Tail(s))

RECURSIVE TrimStart(_)
TrimStart(s) ==
    IF s # <<>> /\ Head(s) \in Whitespace THEN TrimStart(Tail(s)) ELSE s

RECURSIVE TrimEnd(_)
TrimEnd(s) ==
    IF s # <<>> /\ s[Len(s)] \in Whitespace
    THEN TrimEnd(SubSeq(s, 1, Len(s) - 1)) ELSE s

\* s.trim()
Trim(s) == TrimEnd(TrimStart(s))

\* normalizePostcode that takes the first three characters for the outward
\* code
NormalizePostcodeOfFirstThree(postcode) ==
    LET cleaned == ToUpperCase(RemoveWhitespace(postcode))
    IN  IF postcode = <<>> THEN <<>>
        ELSE IF Len(cleaned) < MinPostcodeLen \/ Len(cleaned) > MaxPostcodeLen
        THEN ToUpperCase(Trim(postcode))
        ELSE SubSeq(cleaned, 1, InwardLen) \o <<" ">>
             \o SubSeq(cleaned, InwardLen + 1, Len(cleaned))

\* normalizePostcode that splits the upper-cased input as it is
NormalizePostcodeOfMutant(postcode) ==
    LET cleaned == ToUpperCase(postcode)
    IN  IF postcode = <<>> THEN <<>>
        ELSE IF Len(cleaned) < MinPostcodeLen \/ Len(cleaned) > MaxPostcodeLen
        THEN ToUpperCase(Trim(postcode))
        ELSE SubSeq(cleaned, 1, Len(cleaned) - InwardLen) \o <<" ">>
             \o SubSeq(cleaned, Len(cleaned) - InwardLen + 1, Len(cleaned))

\* normalizePostcode(postcode)
NormalizePostcodeOf(postcode) ==
    LET cleaned == ToUpperCase(RemoveWhitespace(postcode))
    IN  IF postcode = <<>> THEN <<>>
        ELSE IF Len(cleaned) < MinPostcodeLen \/ Len(cleaned) > MaxPostcodeLen
        THEN ToUpperCase(Trim(postcode))
        ELSE SubSeq(cleaned, 1, Len(cleaned) - InwardLen) \o <<" ">>
             \o SubSeq(cleaned, Len(cleaned) - InwardLen + 1, Len(cleaned))

\* The documented examples: "wf92wf", "SW1A1AA", "WF9 2WF", "m1 1aa"
PostcodeExamples ==
    {<<"w", "f", "9", "2", "w", "f">>, <<"S", "W", "1", "A", "1", "A", "A">>,
     <<"W", "F", "9", " ", "2", "W", "F">>, <<"m", "1", " ", "1", "a", "a">>}

\* The strings that the model normalises: the examples, one with tabs, and
\* every string of at most MaxChars characters that are a lower-case letter,
\* a digit, a blank
PostcodeInputs ==
    PostcodeExamples \cup {<<>>, <<"\t", "w", "f", "9", "\t", " ", "2", "w", "f", "\t">>}
        \cup SeqsUpTo({"w", "9", " "}, MaxChars)

\* The call normalizePostcode(postcode) for the string in hand
NormalizePostcode ==
    /\ last.op = "postcode"
    /\ last' = [op |-> "normalizePostcode", args |-> last.args,
                ret |-> <<NormalizePostcodeOf(last.args[1])>>, pre |-> 0]
    /\ UNCHANGED <<now, ticks, client, stations, fuelPrices, priceIds, syncLog,
                   syncState, run>>

\* A call of normalizePostcode on the result of the call before
NormalizeAgain ==
    /\ last.op = "normalizePostcode"
    /\ Len(last.ret) = 1
    /\ last' = [last EXCEPT !.ret = Append(@, NormalizePostcodeOf(last.ret[1]))]
    /\ UNCHANGED <<now, ticks, client, stations, fuelPrices, priceIds, syncLog,
                   syncState, run>>

----------------------------------------------------------------------------
(* The upstream API and the records it returns *)

FullBatch == 500     \* a batch of this size announces a further batch

BatchCap == 14       \* while (batchNumber <= 14), cron handler and daemon

Retries == 3         \* let retries = 3, sync-local's station writes

RetryWaitMs == 1000  \* setTimeout(resolve, 1000) before a retry

\* The sizes of the batches the upstream returns (at most FullBatch records)
PageSizes == {0, 287, FullBatch}

\* The upstream sends a price as a string of pence with four decimals, which
\* some retailers prefix with an apostrophe ("'0126.9000").  A string is the
\* sequence of its characters.
Text126_94 == <<"0", "1", "2", "6", ".", "9", "4", "0", "0">>

Text49_4 == <<"0", "0", "4", "9", ".", "4", "0", "0", "0">>

TextQuoted126_9 == <<"'", "0", "1", "2", "6", ".", "9", "0", "0", "0">>

Text49 == <<"0", "0", "4", "9", ".", "0", "0", "0", "0">>

Text301 == <<"0", "3", "0", "1", ".", "0", "0", "0", "0">>

TextZeros == <<"0", "0", "0", "0">>

\* The price records that the model follows through a run.  The other records
\* of a batch name stations that are not in the store; every price path skips
\* them without a write.
PriceRecords ==
    [station_id : {1}, fuel_type : {"E10"}, price : {Text126_94, Text49_4}]

\* The station records that the model follows through a run
StationRecords ==
    {[station_id |-> 2, name |-> "n1", brand |-> "b1", postcode |-> "WF9 2WF"]}

\* The station records of the batches whose records are all followed: a
\* station with a postcode and one without
StationUpdateRecords ==
    {[station_id |-> 1, name |-> "n1", brand |-> "b1", postcode |-> "WF9 2WF"],
     [station_id |-> 2, name |-> "n2", brand |-> Absent, postcode |-> ""]}

\* The price records of the batches whose records are all followed: prices of
\* the stations 1 and 2, of a station that the store does not hold, and of a
\* fuel type that no entry point recognises
UpdateRecords ==
    {[station_id |-> 1, fuel_type |-> "E10", price |-> Text126_94],
     [station_id |-> 2, fuel_type |-> "E10", price |-> Text126_94],
     [station_id |-> 3, fuel_type |-> "E10", price |-> Text126_94],
     [station_id |-> 1, fuel_type |-> "LPG", price |-> Text126_94]}

\* Prices of station 1 under a name every entry point takes, a name none
\* recognises and one of the upstream's names of diesel
FuelTypeRecords ==
    [station_id : {1}, fuel_type : {"E10", "LPG", "B7_STANDARD"},
     price : {Text126_94}]

\* Prices of station 1 in the upstream's notation: with an apostrophe, below
\* 50p, above 300p, zeros only, and an ordinary one
TextRecords ==
    [station_id : {1}, fuel_type : {"E10"},
     price : {TextQuoted126_9, Text49, Text301, TextZeros, Text126_94}]

\* A non-2xx response
ErrorResponse == [ok |-> FALSE, size |-> 0, items |-> <<>>]

\* The 2xx responses: a batch of `size` records, of which `items` are followed
Pages(recs) ==
    {[ok |-> TRUE, size |-> 0, items |-> <<>>]} \cup
    {[ok |-> TRUE, size |-> s, items |-> it] :
        s \in PageSizes \ {0}, it \in {<<>>} \cup {<<r>> : r \in recs}}

Responses(recs) == Pages(recs) \cup {ErrorResponse}

\* An upstream whose batches the model follows record by record: batch n
\* holds two records of station n if it is full, one if it is short
BatchItems(kind, n, size) ==
    LET a == IF kind \in {"syncStations", "syncLocalStations"}
             THEN [station_id |-> n, name |-> "n1", brand |-> "b1",
                   postcode |-> "WF9 2WF"]
             ELSE [station_id |-> n, fuel_type |-> "E10", price |-> Text126_94]
        b == IF kind \in {"syncStations", "syncLocalStations"}
             THEN [a EXCEPT !.name = "n2"]
             ELSE [a EXCEPT !.price = Text49_4]
    IN  IF size = 0 THEN <<>>
        ELSE IF size = FullBatch THEN <<a, b>>
        ELSE <<a>>

\* The 2xx responses of that upstream to the request for batch n
SequencedPages(kind, n) ==
    {[ok |-> TRUE, size |-> s, items |-> BatchItems(kind, n, s)] :
        s \in PageSizes}

\* The 2xx responses that are one short batch of followed records
UpdatePages ==
    {[ok |-> TRUE, size |-> Len(it), items |-> it] :
        it \in {<<>>} \cup SeqsUpTo(UpdateRecords, MaxUpdates)}

FuelTypePages ==
    {[ok |-> TRUE, size |-> Len(it), items |-> it] :
        it \in {<<>>} \cup SeqsUpTo(FuelTypeRecords, MaxUpdates)}

TextPages ==
    {[ok |-> TRUE, size |-> Len(it), items |-> it] :
        it \in {<<>>} \cup SeqsUpTo(TextRecords, MaxUpdates)}

StationUpdatePages ==
    {[ok |-> TRUE, size |-> Len(it), items |-> it] :
        it \in {<<>>} \cup SeqsUpTo(StationUpdateRecords, MaxUpdates)}

----------------------------------------------------------------------------
(* Normalisation of a fetched price *)

ValidFuelTypes == {"E5", "E10", "Diesel", "Super Diesel", "B10", "HVO"}

\* Convex syncPrices
MapFuelConvex(f) ==
    IF f \in {"B7P", "Diesel (B7)"} THEN "Diesel"
    ELSE IF f \in {"B7S", "Super Diesel (B7)"} THEN "Super Diesel"
    ELSE f

\* sync-local
MapFuelLocal(f) ==
    IF f \in {"B7_STANDARD", "B7P"} THEN "Diesel"
    ELSE IF f \in {"B7_PREMIUM", "B7S"} THEN "Super Diesel"
    ELSE IF f = "E5_PREMIUM" THEN "E5"
    ELSE f

\* cron handler and daemon
MapFuelCron(f) ==
    IF f = "B7_STANDARD" THEN "Diesel"
    ELSE IF f = "B7_PREMIUM" THEN "Super Diesel"
    ELSE IF f = "E5_PREMIUM" THEN "E5"
    ELSE f

\* Math.round(x) of a non-negative x, in hundredths of a penny
RoundPence(h) == ((h + 50) \div 100) * 100

\* Math.round(x * 10) / 10 of a non-negative x, in hundredths of a penny
RoundTenth(h) == ((h + 5) \div 10) * 10

\* The value of parseFloat for a string that does not begin with a number
NaN == 0 - 1

DigitChars == {"0", "1", "2", "3", "4", "5", "6", "7", "8", "9"}

DigitValue(c) == CHOOSE d \in 0..9 : ToString(d) = c

\* The number of digits that s begins with
RECURSIVE LeadingDigits(_)
LeadingDigits(s) ==
    IF s = <<>> \/ Head(s) \notin DigitChars THEN 0
    ELSE 1 + LeadingDigits(Tail(s))

\* The number that the digits ds write
RECURSIVE NatOf(_)
NatOf(ds) ==
    IF ds = <<>> THEN 0
    ELSE NatOf(SubSeq(ds, 1, Len(ds) - 1)) * 10 + DigitValue(ds[Len(ds)])

\* parseFloat(s) of a string without sign, exponent and leading blanks: the
\* longest prefix of the form digits, or digits "." digits with digits on one
\* side at least; NaN if there is none.  The value is in hundredths of a
\* penny: the decimals after the second are cut, which changes neither its
\* rounding to pence or to tenths nor its sign.
ParseFloat(s) ==
    LET n == LeadingDigits(s)
        rest == SubSeq(s, n + 2, Len(s))
        m == IF n < Len(s) /\ s[n + 1] = "." THEN LeadingDigits(rest) ELSE 0
        frac == SubSeq(rest, 1, Min(m, 2)) \o SubSeq(<<"0", "0">>, 1, 2 - Min(m, 2))
    IN  IF n = 0 /\ m = 0 THEN NaN
        ELSE NatOf(SubSeq(s, 1, n)) * 100 + NatOf(frac)

\* s without the zeros that it begins with
RECURSIVE StripZeros(_)
StripZeros(s) ==
    IF s # <<>> /\ Head(s) = "0" THEN StripZeros(Tail(s)) ELSE s

\* priceStr.replace(/^'?0*/, '')
StripPrice(s) ==
    StripZeros(IF s # <<>> /\ Head(s) = "'" THEN Tail(s) ELSE s)

\* sync-local: parseFloat(priceStr.replace(/^'?0*/, ''))
PriceValueLocal(s) == ParseFloat(StripPrice(s))

\* cron handler and daemon: parseFloat(fp.price?.replace(/^'?0*/, '') || '0')
PriceValueCron(s) ==
    IF StripPrice(s) = <<>> THEN ParseFloat(<<"0">>) ELSE ParseFloat(StripPrice(s))

\* Convex syncPrices: Math.round(parseFloat(priceValue)) of a string, which is
\* NaN for a string that begins with an apostrophe
RoundConvex(s) ==
    IF ParseFloat(s) = NaN THEN NaN ELSE RoundPence(ParseFloat(s))

\* StationIdOf that falls back on the first station
StationIdOfMutant(e) ==
    IF ByExternalId(stations, e).id = 0 THEN 1 ELSE ByExternalId(stations, e).id

\* The key of the station with externalId e, 0 if there is none
StationIdOf(e) == ByExternalId(stations, e).id

\* The daemon's checks on a price: priceValue <= 0, finalPrice < 50,
\* finalPrice > 300
DaemonRejects(h) ==
    \/ h <= 0
    \/ RoundPence(h) < 50 * 100
    \/ RoundPence(h) > 300 * 100

\* The arguments the cron handler and sync-local push for a record whose fuel
\* type they map to `mapped` and whose price they read as priceValue (none
\* for a record that they skip)
ToInsertTenth(rec, mapped, priceValue) ==
    IF \/ StationIdOf(rec.station_id) = 0
       \/ mapped \notin ValidFuelTypes
       \/ priceValue = NaN
    THEN <<>>
    ELSE <<[stationId |-> StationIdOf(rec.station_id), fuelType |-> mapped,
            price |-> RoundTenth(priceValue), sourceTimestamp |-> "t"]>>

\* The arguments sync-local pushes for a record; a record without a price
\* string is skipped before its fuel type is mapped
ToInsertLocal(rec) ==
    IF rec.price = <<>> THEN <<>>
    ELSE ToInsertTenth(rec, MapFuelLocal(rec.fuel_type),
                       PriceValueLocal(rec.price))

\* The arguments the daemon pushes for a record
ToInsertDaemon(rec) ==
    IF \/ StationIdOf(rec.station_id) = 0
       \/ MapFuelCron(rec.fuel_type) \notin ValidFuelTypes
       \/ PriceValueCron(rec.price) = NaN
       \/ DaemonRejects(PriceValueCron(rec.price))
    THEN <<>>
    ELSE <<[stationId |-> StationIdOf(rec.station_id),
            fuelType |-> MapFuelCron(rec.fuel_type),
            price |-> RoundPence(PriceValueCron(rec.price)),
            sourceTimestamp |-> "t"]>>

ToInsertOne(kind, rec) ==
    IF kind = "daemon" THEN ToInsertDaemon(rec)
    ELSE IF kind = "cron"
    THEN ToInsertTenth(rec, MapFuelCron(rec.fuel_type), PriceValueCron(rec.price))
    ELSE ToInsertLocal(rec)

\* pricesToInsert of a script: the pushed arguments of all fetched records
RECURSIVE PricesToInsert(_, _)
PricesToInsert(kind, recs) ==
    IF recs = <<>> THEN <<>>
    ELSE ToInsertOne(kind, Head(recs)) \o PricesToInsert(kind, Tail(recs))

\* sync-local's counter `skipped`: one for every price that is not pushed
\* (station not in the map, no fuel type or price, unknown fuel type, NaN)
RECURSIVE SkippedLocal(_)
SkippedLocal(recs) ==
    IF recs = <<>> THEN 0
    ELSE (IF ToInsertLocal(Head(recs)) = <<>> THEN 1 ELSE 0)
         + SkippedLocal(Tail(recs))

\* The station arguments that syncStations maps a fetched record to
ToStationArgs(rec) ==
    [externalId |-> rec.station_id, name |-> rec.name, brand |-> rec.brand]

\* sync-local: postcode: postcode || 'UNKNOWN', for a postcode that is empty
\* or already in its normal form
LocalPostcode(rec) == IF rec.postcode = "" THEN "UNKNOWN" ELSE rec.postcode

\* sync-local's stationsToUpsert: the mapped records of a chunk, without those
\* whose postcode is UNKNOWN
RECURSIVE StationsToUpsert(_)
StationsToUpsert(batch) ==
    IF batch = <<>> THEN <<>>
    ELSE (IF LocalPostcode(Head(batch)) # "UNKNOWN"
          THEN <<ToStationArgs(Head(batch))>> ELSE <<>>)
         \o StationsToUpsert(Tail(batch))

\* A fetched station record that has no station_id, id, site_id or node_id
NoId == 0

\* `unknown_${n}`, written as a number that no station id equals
FallbackId(n) == 0 - (n + 1)

StationBatchSize == 50        \* BATCH_SIZE of syncStations
LocalStationBatchSize == 25   \* BATCH_SIZE of sync-local's station sync

BatchSizeOf(kind) ==
    IF kind = "syncStations" THEN StationBatchSize ELSE LocalStationBatchSize

\* The externalId of the record at place idx (from 0) of the chunk that
\* starts at place i of the fetched records: syncStations falls back to
\* `unknown_${i}`, sync-local to `unknown_${i + idx}`
ExternalIdOf(kind, rec, i, idx) ==
    IF rec.station_id # NoId THEN rec.station_id
    ELSE IF kind = "syncStations" THEN FallbackId(i)
    ELSE FallbackId(i + idx)

\* stationsToUpsert of the chunk `batch` that starts at place i, here of
\* batch[lo..hi] (by halves); sync-local filters out the records whose
\* postcode is UNKNOWN
RECURSIVE MappedChunk(_, _, _, _, _)
MappedChunk(kind, batch, i, lo, hi) ==
    IF lo > hi THEN <<>>
    ELSE IF lo = hi
    THEN (IF kind # "syncStations" /\ LocalPostcode(batch[lo]) = "UNKNOWN"
          THEN <<>>
          ELSE <<[ToStationArgs(batch[lo]) EXCEPT
                     !.externalId = ExternalIdOf(kind, batch[lo], i, lo - 1)]>>)
    ELSE MappedChunk(kind, batch, i, lo, (lo + hi) \div 2)
         \o MappedChunk(kind, batch, i, (lo + hi) \div 2 + 1, hi)

\* The table after the loop of batchUpsertStations over as[lo..hi]: the
\* upserts of BatchUpsertFrom in the same order.  The loop is taken by
\* halves, and the first half is evaluated (its length is asked for) before
\* the second, which keeps the evaluation shallow.
RECURSIVE UpsertedRows(_, _, _, _, _)
UpsertedRows(rows, as, lo, hi, t) ==
    IF lo > hi THEN rows
    ELSE IF lo = hi THEN UpsertStationTo(rows, as[lo], t).rows
    ELSE LET first == UpsertedRows(rows, as, lo, (lo + hi) \div 2, t)
         IN  IF Len(first) >= Len(rows)
             THEN UpsertedRows(first, as, (lo + hi) \div 2 + 1, hi, t)
             ELSE first

\* The chunk loop of a station sync over the fetched records from place i on,
\* every batchUpsertStations call succeeding: the table and the count
RECURSIVE SyncStationsFrom(_, _, _, _, _)
SyncStationsFrom(kind, acc, recs, i, t) ==
    IF i >= Len(recs) THEN acc
    ELSE LET batch == SubSeq(recs, i + 1, Min(i + BatchSizeOf(kind), Len(recs)))
             as == MappedChunk(kind, batch, i, 1, Len(batch))
         IN  SyncStationsFrom(kind,
                 [rows |-> UpsertedRows(acc.rows, as, 1, Len(as), t),
                  processed |-> acc.processed + Len(batch)],
                 recs, i + BatchSizeOf(kind), t)

\* Fetched station records with and without an id, each with a postcode
IdRecords ==
    [station_id : {1, 2, NoId}, name : {"n1", "n2"}, brand : {"b1"},
     postcode : {"WF9 2WF"}]

\* n records of stations 3, 4, ...
PaddingRecords(n) ==
    [k \in 1..n |->
        [station_id |-> k + 2, name |-> "n1", brand |-> "b1", postcode |-> "WF9 2WF"]]

\* The record without an id of the long lists
IdlessRecord ==
    [station_id |-> NoId, name |-> "n1", brand |-> "b1", postcode |-> "WF9 2WF"]

\* The fetched lists: the short lists of distinct records (no id twice), and
\* the lists of a chunk's length less 2 and less 1 of stations followed by
\* two records without an id, which are then in one chunk or in two
FetchedStationLists ==
    {recs \in {<<>>} \cup SeqsUpTo(IdRecords, MaxStationRecords) :
        \A i, j \in 1..Len(recs) :
            (i # j /\ recs[i].station_id # NoId)
                => recs[i].station_id # recs[j].station_id}
    \cup {PaddingRecords(n) \o <<IdlessRecord, IdlessRecord>> :
            n \in {LocalStationBatchSize - 2, LocalStationBatchSize - 1,
                   StationBatchSize - 2, StationBatchSize - 1}}

\* A station sync of the fetched records recs into the empty store
SyncStationRecords(kind, recs) ==
    /\ stations = <<>>
    /\ LET r == SyncStationsFrom(kind, [rows |-> <<>>, processed |-> 0], recs, 0, now)
       IN  /\ stations' = r.rows
           /\ last' = [op |-> "syncStationRecords",
                       args |-> [kind |-> kind, recs |-> recs],
                       ret |-> <<r.processed>>, pre |-> 0]
    /\ UNCHANGED <<now, ticks, client, fuelPrices, priceIds, syncLog, syncState, run>>

----------------------------------------------------------------------------
(* A sync run: the local variables of the entry point in flight *)

ConvexKinds == {"syncStations", "syncPrices"}

\* sync-local is run for the stations ("syncLocalStations") or for the prices
\* ("syncLocal")
ScriptKinds == {"cron", "daemon", "syncLocal", "syncLocalStations"}

StationKinds == {"syncStations", "syncLocalStations"}

RecordsOf(kind) == IF kind \in StationKinds THEN StationRecords ELSE PriceRecords

WatermarkKey(kind) ==
    IF kind = "syncStations" THEN "last_station_sync" ELSE "last_price_sync"

NoRun ==
    [no |-> 0, kind |-> "none", pc |-> "idle", syncId |-> 0, batchNumber |-> 0,
     reqs |-> <<>>, all |-> <<>>, i |-> 0, processed |-> 0, notFound |-> 0,
     skipped |-> 0, errors |-> 0, retries |-> 0, tries |-> 0, result |-> "none",
     stateBefore |-> <<>>, pricesBefore |-> 0, fetchedAt |-> 0,
     others |-> <<>>]

\* syncPrices called without sinceTimestamp: the bound of its requests is the
\* value of last_price_sync, or 24 hours ago if there is none
SinceTimestamp ==
    IF syncState["last_price_sync"] # 0 THEN syncState["last_price_sync"]
    ELSE now - DayMs

\* The run that an entry point starts with
NewRun(kind, pc) ==
    [NoRun EXCEPT !.no = run.no + 1, !.kind = kind, !.pc = pc,
                  !.stateBefore = syncState, !.pricesBefore = priceIds]

\* The run has ended: what the entry point returns to its caller
Ended(r, result) == [r EXCEPT !.pc = "done", !.result = result]

\* An exception inside the entry point's try block: the Convex actions go to
\* their catch block (failSync), the scripts report the failure and end.
Thrown(r) ==
    IF r.kind \in ConvexKinds THEN [r EXCEPT !.pc = "failSync"]
    ELSE Ended(r, "failure")

\* After the fetch loop.  The Convex actions write record by record and then
\* set the watermark; sync-local writes the stations chunk by chunk and ends;
\* a price script writes pricesToInsert in chunks and ends.
AfterFetch(r) ==
    IF r.kind \in ConvexKinds
    THEN [r EXCEPT !.pc = IF r.all = <<>> THEN "setSyncState" ELSE "write"]
    ELSE IF r.kind = "syncLocalStations"
    THEN IF r.all = <<>> THEN Ended(r, "success")
         ELSE [r EXCEPT !.pc = "write", !.retries = Retries]
    ELSE LET c == IF r.kind = "syncLocal"
                  THEN [r EXCEPT !.skipped = SkippedLocal(r.all)]
                  ELSE r
         IN  IF PricesToInsert(r.kind, r.all) = <<>>
             THEN Ended(c, "success")
             ELSE [c EXCEPT !.pc = "write"]

\* LoopConvex that stops on a full batch as on a partial one
LoopConvexMutant(r, resp) ==
    IF ~resp.ok THEN Thrown(r)
    ELSE IF resp.size = 0 THEN AfterFetch(r)
    ELSE AfterFetch([r EXCEPT !.all = r.all \o resp.items])

\* One iteration of the fetch loop of syncStations / syncPrices (Convex)
LoopConvex(r, resp) ==
    IF ~resp.ok THEN Thrown(r)
    ELSE IF resp.size = 0 THEN AfterFetch(r)
    ELSE IF resp.size < FullBatch
         THEN AfterFetch([r EXCEPT !.all = r.all \o resp.items])
         ELSE [r EXCEPT !.all = r.all \o resp.items,
                        !.batchNumber = r.batchNumber + 1]

\* LoopLocal that puts a batch in front of the batches before it
LoopLocalMutant(r, resp) ==
    IF ~resp.ok THEN Thrown(r)
    ELSE IF resp.size = 0 THEN AfterFetch(r)
    ELSE IF resp.size >= FullBatch
         THEN [r EXCEPT !.all = resp.items \o r.all,
                        !.batchNumber = r.batchNumber + 1]
         ELSE AfterFetch([r EXCEPT !.all = resp.items \o r.all,
                                   !.batchNumber = r.batchNumber + 1])

\* One iteration of the fetch loop of sync-local
LoopLocal(r, resp) ==
    IF ~resp.ok THEN Thrown(r)
    ELSE IF resp.size = 0 THEN AfterFetch(r)
    ELSE IF resp.size >= FullBatch
         THEN [r EXCEPT !.all = r.all \o resp.items,
                        !.batchNumber = r.batchNumber + 1]
         ELSE AfterFetch([r EXCEPT !.all = r.all \o resp.items,
                                   !.batchNumber = r.batchNumber + 1])

\* One iteration of the fetch loop of the cron handler and of the daemon
LoopCapped(r, resp) ==
    IF ~resp.ok THEN AfterFetch(r)
    ELSE IF resp.size = 0 THEN AfterFetch(r)
    ELSE IF resp.size < FullBatch
         THEN AfterFetch([r EXCEPT !.all = r.all \o resp.items])
         ELSE IF r.batchNumber + 1 <= BatchCap
              THEN [r EXCEPT !.all = r.all \o resp.items,
                             !.batchNumber = r.batchNumber + 1]
              ELSE AfterFetch([r EXCEPT !.all = r.all \o resp.items,
                                        !.batchNumber = r.batchNumber + 1])

Loop(r, resp) ==
    IF r.kind \in ConvexKinds THEN LoopConvex(r, resp)
    ELSE IF r.kind \in {"syncLocal", "syncLocalStations"} THEN LoopLocal(r, resp)
    ELSE LoopCapped(r, resp)

\* A store call that is not one of the four table mutations above
Call(op) == [op |-> op, args |-> <<>>, ret |-> <<>>, pre |-> Len(fuelPrices)]

----------------------------------------------------------------------------
(* The steps of a run.  A call of a store mutation or an HTTP request may
   fail (ok = FALSE): it then throws and has no effect. *)

\* syncStations / syncPrices are called: startSync, before the try block
StartSync(kind, ok) ==
    /\ run.pc \in {"idle", "done"}
    /\ run.no < MaxRuns
    /\ IF ok
       THEN /\ syncLog' = Append(syncLog,
                 [id |-> Len(syncLog) + 1, syncType |-> kind,
                  status |-> "started", startedAt |-> now, completedAt |-> 0])
            /\ run' = [NewRun(kind, "token") EXCEPT !.syncId = Len(syncLog) + 1]
            /\ last' = Call("startSync")
       ELSE /\ run' = Ended(NewRun(kind, "startSync"), "thrown")
            /\ UNCHANGED <<syncLog, last>>
    /\ UNCHANGED <<now, ticks, client, stations, fuelPrices, priceIds, syncState>>

\* A script is started.  The cron handler answers 401 unless the request
\* carries the secret.
Invoke(kind, authorized) ==
    /\ run.pc \in {"idle", "done"}
    /\ run.no < MaxRuns
    /\ run' = IF kind = "cron" /\ ~authorized
              THEN Ended(NewRun(kind, "auth"), "unauthorized")
              ELSE NewRun(kind, "token")
    /\ UNCHANGED <<now, ticks, client, stations, fuelPrices, priceIds, syncLog,
                   syncState, last>>

\* The run is at an await or has not yet returned
InFlight(r) == r.pc \notin {"idle", "done", "exited"}

\* The local state of a run by itself
Alone(r) == [r EXCEPT !.others = <<>>]

\* The daemon's timer fires: setInterval(async () => { runCount++; await
\* syncPrices(client) }, SYNC_INTERVAL_MS).  main() sets the timer after the
\* initial run has returned; the callback asks nothing about the run before
\* it.  `run` is the run the event loop continues next, run.others are the
\* other runs of the process, suspended at their awaits or returned.
TimerFires ==
    /\ run.kind = "daemon"
    /\ run.pc # "exited"
    /\ run.others # <<>> \/ run.pc = "done"
    /\ Len(run.others) + 1 < 1 + MaxTimerRuns
    /\ run' = [NewRun("daemon", "token") EXCEPT
                  !.no = Len(run.others) + 2,
                  !.others = Append(run.others, Alone(run))]
    /\ UNCHANGED <<now, ticks, client, stations, fuelPrices, priceIds, syncLog,
                   syncState, last>>

\* The event loop continues another run of the process that is at an await
Resume(k) ==
    /\ run.pc # "exited"
    /\ k \in 1..Len(run.others)
    /\ InFlight(run.others[k])
    /\ run' = [run.others[k] EXCEPT
                  !.others = [run.others EXCEPT ![k] = Alone(run)]]
    /\ UNCHANGED <<now, ticks, client, stations, fuelPrices, priceIds, syncLog,
                   syncState, last>>

\* process.on('SIGINT', () => { process.exit(0) }): the process ends where
\* it is, whatever its runs are awaiting
Sigint ==
    /\ run.kind = "daemon"
    /\ run.pc # "exited"
    /\ run' = [run EXCEPT !.pc = "exited"]
    /\ UNCHANGED <<now, ticks, client, stations, fuelPrices, priceIds, syncLog,
                   syncState, last>>

\* getAccessToken()
GetAccessToken(ok) ==
    /\ run.pc = "token"
    /\ run' = IF ok THEN [run EXCEPT !.pc = "fetch", !.batchNumber = 1]
              ELSE Thrown(run)
    /\ UNCHANGED <<now, ticks, client, stations, fuelPrices, priceIds, syncLog,
                   syncState, last>>

\* One request of the fetch loop and what the loop does with the response.
\* The upstream holds finitely many records: batch MaxBatches is not full.
\* fetchedAt is the instant of the latest request that carried a lower bound
\* on the update time (syncPrices alone sends one).
FetchBatch(resp) ==
    /\ run.pc = "fetch"
    /\ run.batchNumber = MaxBatches => resp.size < FullBatch
    /\ run' = Loop([run EXCEPT !.reqs = Append(@, [n |-> run.batchNumber,
                                                   ok |-> resp.ok,
                                                   size |-> resp.size]),
                               !.fetchedAt = IF run.kind = "syncPrices"
                                             THEN now ELSE 0],
                   resp)
    /\ UNCHANGED <<now, ticks, client, stations, fuelPrices, priceIds, syncLog,
                   syncState, last>>

\* The upstream answers batch MaxBatches, and every batch after it, with a
\* full batch, to a loop that has no cap on the batch number.  The loop goes
\* on as after any full batch; to keep it finite here the batch numbers start
\* over after MaxBatches, and so does the record of the run's requests.
FetchFullAgain ==
    /\ run.pc = "fetch"
    /\ run.kind \in ConvexKinds \cup {"syncLocal", "syncLocalStations"}
    /\ run.batchNumber = MaxBatches
    /\ run' = [run EXCEPT !.batchNumber = 1, !.reqs = <<>>]
    /\ UNCHANGED <<now, ticks, client, stations, fuelPrices, priceIds, syncLog,
                   syncState, last>>

\* The run has handled record i + 1
Advance(r) ==
    [r EXCEPT !.i = r.i + 1,
              !.pc = IF r.i + 1 = Len(r.all) THEN "setSyncState" ELSE "write"]

\* syncPrices: one iteration of the loop over the fetched price updates
WritePrice(ok) ==
    /\ run.kind = "syncPrices"
    /\ run.pc = "write"
    /\ LET rec == run.all[run.i + 1]
           fuelType == MapFuelConvex(rec.fuel_type)
           a == [stationId |-> StationIdOf(rec.station_id), fuelType |-> fuelType,
                 price |-> RoundConvex(rec.price), sourceTimestamp |-> "t"]
           r == AddPriceTo(fuelPrices, priceIds, a, now)
       IN  IF rec.price = <<>>
           THEN /\ run' = Advance(run)
                /\ UNCHANGED <<fuelPrices, priceIds, last>>
           ELSE IF StationIdOf(rec.station_id) = 0
           THEN /\ run' = Advance([run EXCEPT !.notFound = @ + 1])
                /\ UNCHANGED <<fuelPrices, priceIds, last>>
           ELSE IF fuelType \notin ValidFuelTypes
           THEN /\ run' = Advance(run)
                /\ UNCHANGED <<fuelPrices, priceIds, last>>
           ELSE IF ~ok
           THEN /\ run' = Thrown(run)
                /\ UNCHANGED <<fuelPrices, priceIds, last>>
           ELSE /\ r.n <= MaxPriceRows
                /\ fuelPrices' = r.prices
                /\ priceIds' = r.n
                /\ last' = [op |-> "addPrice", args |-> <<a>>,
                            ret |-> <<r.ret>>, pre |-> Len(fuelPrices)]
                /\ run' = Advance([run EXCEPT !.processed = @ + 1])
    /\ UNCHANGED <<now, ticks, client, stations, syncLog, syncState>>

\* syncStations: the chunk that holds record i + 1 is mapped and upserted
WriteStations(ok) ==
    /\ run.kind = "syncStations"
    /\ run.pc = "write"
    /\ LET as == <<ToStationArgs(run.all[run.i + 1])>>
           r == BatchUpsertTo(stations, as, now)
       IN  IF ~ok
           THEN /\ run' = Thrown(run)
                /\ UNCHANGED <<stations, last>>
           ELSE /\ Len(r.rows) <= Cardinality(ExternalIds)
                /\ stations' = r.rows
                /\ last' = [op |-> "batchUpsertStations", args |-> as,
                            ret |-> r.ret, pre |-> Len(stations)]
                /\ run' = Advance([run EXCEPT !.processed = @ + 1])
    /\ UNCHANGED <<now, ticks, client, fuelPrices, priceIds, syncLog, syncState>>

\* sync-local has handled the chunk of record i + 1
AdvanceLocal(r) ==
    IF r.i + 1 = Len(r.all)
    THEN Ended([r EXCEPT !.i = r.i + 1, !.tries = 0], "success")
    ELSE [r EXCEPT !.i = r.i + 1, !.retries = Retries, !.tries = 0]

\* sync-local, stations: one attempt to upsert the chunk that holds record
\* i + 1.  A failed attempt is repeated after a second, Retries times in all;
\* then the chunk is counted as failed and the loop goes on.  tries is the
\* number of calls of the mutation for the chunk in hand.
UpsertChunk(ok) ==
    /\ run.kind = "syncLocalStations"
    /\ run.pc = "write"
    /\ LET as == StationsToUpsert(<<run.all[run.i + 1]>>)
           r == BatchUpsertTo(stations, as, now)
       IN  IF ok
           THEN /\ Len(r.rows) <= Cardinality(ExternalIds)
                /\ stations' = r.rows
                /\ last' = [op |-> "batchUpsertStations", args |-> as,
                            ret |-> r.ret, pre |-> Len(stations)]
                /\ run' = AdvanceLocal([run EXCEPT !.processed = @ + 1])
                /\ now' = now
           ELSE IF run.retries - 1 = 0
           THEN /\ run' = AdvanceLocal([run EXCEPT !.errors = @ + 1,
                                                   !.retries = 0])
                /\ UNCHANGED <<now, stations, last>>
           ELSE /\ run' = [run EXCEPT !.retries = @ - 1, !.tries = @ + 1]
                /\ now' = now + RetryWaitMs
                /\ UNCHANGED <<stations, last>>
    /\ UNCHANGED <<ticks, client, fuelPrices, priceIds, syncLog, syncState>>

\* A script: pricesToInsert is written with batchAddPrices.  The cron handler
\* and the daemon let a failure propagate; sync-local counts it and goes on.
InsertPrices(ok) ==
    /\ run.kind \in {"cron", "daemon", "syncLocal"}
    /\ run.pc = "write"
    /\ LET as == PricesToInsert(run.kind, run.all)
           r == BatchAddTo(fuelPrices, priceIds, as, now)
       IN  IF ~ok
           THEN /\ run' = IF run.kind = "syncLocal"
                          THEN Ended([run EXCEPT !.errors = @ + 1, !.tries = 0],
                                     "success")
                          ELSE Thrown(run)
                /\ UNCHANGED <<fuelPrices, priceIds, last>>
           ELSE /\ r.n <= MaxPriceRows
                /\ fuelPrices' = r.prices
                /\ priceIds' = r.n
                /\ last' = [op |-> "batchAddPrices", args |-> as, ret |-> r.ret,
                            pre |-> Len(fuelPrices)]
                /\ run' = Ended([run EXCEPT !.processed = Len(as), !.tries = 0],
                              "success")
    /\ UNCHANGED <<now, ticks, client, stations, syncLog, syncState>>

\* setSyncState({key, value: new Date().toISOString()})
SetSyncState(ok) ==
    /\ run.pc = "setSyncState"
    /\ IF ok
       THEN /\ syncState' = [syncState EXCEPT ![WatermarkKey(run.kind)] = now]
            /\ run' = [run EXCEPT !.pc = "completeSync"]
            /\ last' = Call("setSyncState")
       ELSE /\ run' = Thrown(run)
            /\ UNCHANGED <<syncState, last>>
    /\ UNCHANGED <<now, ticks, client, stations, fuelPrices, priceIds, syncLog>>

\* ctx.db.patch(syncId, fields)
PatchSyncLog(rows, syncId, status, t) ==
    [k \in 1..Len(rows) |->
        IF rows[k].id = syncId
        THEN [rows[k] EXCEPT !.status = status, !.completedAt = t]
        ELSE rows[k]]

\* completeSync({syncId, ...}), then return {success: true, ...}
CompleteSync(ok) ==
    /\ run.pc = "completeSync"
    /\ IF ok
       THEN /\ syncLog' = PatchSyncLog(syncLog, run.syncId, "completed", now)
            /\ run' = Ended(run, "success")
            /\ last' = Call("completeSync")
       ELSE /\ run' = Thrown(run)
            /\ UNCHANGED <<syncLog, last>>
    /\ UNCHANGED <<now, ticks, client, stations, fuelPrices, priceIds, syncState>>

\* The catch block: failSync({syncId, errorMessage}), then return
\* {success: false, error}.  A failure of failSync leaves the action.
FailSync(ok) ==
    /\ run.pc = "failSync"
    /\ IF ok
       THEN /\ syncLog' = PatchSyncLog(syncLog, run.syncId, "failed", now)
            /\ run' = Ended(run, "failure")
            /\ last' = Call("failSync")
       ELSE /\ run' = Ended(run, "thrown")
            /\ UNCHANGED <<syncLog, last>>
    /\ UNCHANGED <<now, ticks, client, stations, fuelPrices, priceIds, syncState>>

----------------------------------------------------------------------------
(* FuelFinderClient (src/lib/fuel-finder-client.ts): the cached OAuth token
   and the calls of the protected endpoints.  null and undefined are 0. *)

BufferMs == 60000    \* Date.now() < this.tokenExpiry - 60000

\* The local state of a call of a public method: no call yet
NoCall ==
    [api |-> "none", pc |-> "idle", token |-> 0, requests |-> 0,
     exchanges |-> 0, body |-> <<>>, statuses |-> <<>>, result |-> "none"]

\* The client after construction; configured: both credentials are set.
\* The object's fields, the counters, the local state of a call in flight
\* and, under `peer`, that of a second call in flight on the same object.
NewClientOf(configured) ==
    [configured |-> configured, accessToken |-> 0, tokenExpiry |-> 0,
     calls |-> 0, api |-> "none", pc |-> "idle", token |-> 0, requests |-> 0,
     exchanges |-> 0, issued |-> 0, body |-> <<>>, statuses |-> <<>>,
     result |-> "none", peer |-> NoCall]

NewClient == NewClientOf(TRUE)

\* The methods that call a protected endpoint
ClientApis == {"searchByPostcode", "searchByLocation", "getAllPrices"}

\* expires_in of a token response, seconds
ExpiresIn == {30, 120}

\* The clock advances by just under the buffer or by the buffer
ClientClockSteps == {BufferMs - 1, BufferMs}

NoData == [none |-> TRUE]

\* The 2xx token responses: the token fields at the top level or under
\* `data`; access_token is t, the token issued, or is missing (0)
TokenBodies(t) ==
    {[ok |-> TRUE, data |-> NoData, access_token |-> a, expires_in |-> e] :
        a \in {0, t}, e \in ExpiresIn}
    \cup
    {[ok |-> TRUE, data |-> [access_token |-> a, expires_in |-> e],
      access_token |-> 0, expires_in |-> 0] : a \in {0, t}, e \in ExpiresIn}

\* A non-2xx token response
TokenError == [ok |-> FALSE, data |-> NoData, access_token |-> 0, expires_in |-> 0]

\* responseData.data || responseData
TokenData(body) == IF body.data # NoData THEN body.data ELSE body

\* The statuses of the protected endpoint; 0: fetch throws
Statuses == {200, 401, 500, 0}

\* The error code of the catch block of a method
CatchCode(api) == IF api = "getAllPrices" THEN "API_ERROR" ELSE "NETWORK_ERROR"

\* The call in flight returns result
Returned(c, result) == [c EXCEPT !.pc = "idle", !.result = result]

\* CacheHit without the buffer
CacheHitMutant(c, t) ==
    c.accessToken # 0 /\ c.tokenExpiry # 0 /\ t < c.tokenExpiry

\* The cached token is returned: this.accessToken && this.tokenExpiry &&
\* Date.now() < this.tokenExpiry - 60000
CacheHit(c, t) ==
    c.accessToken # 0 /\ c.tokenExpiry # 0 /\ t < c.tokenExpiry - BufferMs

\* getAccessToken() at time t; body is the response of the token endpoint if
\* it is asked.  A throw is caught by the calling method.
GetAccessTokenOf(c, t, body) ==
    IF CacheHit(c, t)
    THEN [c EXCEPT !.token = c.accessToken, !.pc = "request"]
    ELSE IF ~c.configured
    THEN Returned(c, CatchCode(c.api))
    ELSE LET d == [c EXCEPT !.exchanges = @ + 1, !.body = body,
                            !.issued = IF TokenData(body).access_token # 0
                                       THEN @ + 1 ELSE @]
         IN  IF ~body.ok
             THEN Returned([d EXCEPT !.accessToken = 0, !.tokenExpiry = 0],
                           CatchCode(c.api))
             ELSE [d EXCEPT !.accessToken = TokenData(body).access_token,
                            !.tokenExpiry = t + TokenData(body).expires_in * 1000,
                            !.token = TokenData(body).access_token,
                            !.pc = "request"]

\* The entry of a public method on the object c
SearchOf(c, api) ==
    LET d == [c EXCEPT !.calls = @ + 1, !.api = api, !.token = 0,
                       !.requests = 0, !.exchanges = 0, !.body = <<>>,
                       !.statuses = <<>>, !.result = "none"]
    IN  IF ~d.configured
        THEN Returned(d, "OAUTH_CREDENTIALS_MISSING")
        ELSE [d EXCEPT !.pc = "token"]

\* searchByPostcode, searchByLocation or getAllPrices is called
Search(api) ==
    /\ client.pc = "idle"
    /\ client.calls < MaxCalls
    /\ client' = SearchOf(client, api)
    /\ UNCHANGED <<now, ticks, stations, fuelPrices, priceIds, syncLog,
                   syncState, last, run>>

\* await this.getAccessToken()
ClientGetAccessToken(body) ==
    /\ client.pc = "token"
    /\ client' = GetAccessTokenOf(client, now, body)
    /\ UNCHANGED <<now, ticks, stations, fuelPrices, priceIds, syncLog,
                   syncState, last, run>>

\* clearToken()
ClearToken(c) == [c EXCEPT !.accessToken = 0, !.tokenExpiry = 0]

\* What the method does with the response of the protected endpoint: on a
\* 401 with a token set it clears the token and calls itself
OnResponse(c, status) ==
    IF status = 0 THEN Returned(c, CatchCode(c.api))
    ELSE IF status = 200 THEN Returned(c, "ok")
    ELSE IF status = 401 /\ c.accessToken # 0
    THEN [ClearToken(c) EXCEPT !.pc = "token"]
    ELSE Returned(c, IF status = 401 THEN "HTTP_401" ELSE "HTTP_500")

\* The request with the token the call was handed, and its response
RequestOf(c, status) ==
    OnResponse([c EXCEPT !.requests = @ + 1, !.statuses = Append(@, status)],
               status)

\* await fetch(protected endpoint)
Request(status) ==
    /\ client.pc = "request"
    /\ client.requests < MaxRequests
    /\ client' = RequestOf(client, status)
    /\ UNCHANGED <<now, ticks, stations, fuelPrices, priceIds, syncLog,
                   syncState, last, run>>

\* The object seen from the second call in flight: the fields of the object
\* and the counters are shared, the local states of the two calls change
\* places.
Swap(c) ==
    [c EXCEPT !.api = c.peer.api, !.pc = c.peer.pc, !.token = c.peer.token,
              !.requests = c.peer.requests, !.exchanges = c.peer.exchanges,
              !.body = c.peer.body, !.statuses = c.peer.statuses,
              !.result = c.peer.result,
              !.peer = [api |-> c.api, pc |-> c.pc, token |-> c.token,
                        requests |-> c.requests, exchanges |-> c.exchanges,
                        body |-> c.body, statuses |-> c.statuses,
                        result |-> c.result]]

\* A public method is called while another call may be in flight
PeerSearch(api) ==
    /\ client.peer.pc = "idle"
    /\ client.calls < MaxCalls
    /\ client' = Swap(SearchOf(Swap(client), api))
    /\ UNCHANGED <<now, ticks, stations, fuelPrices, priceIds, syncLog,
                   syncState, last, run>>

\* await this.getAccessToken() of the second call
PeerGetAccessToken(body) ==
    /\ client.peer.pc = "token"
    /\ client' = Swap(GetAccessTokenOf(Swap(client), now, body))
    /\ UNCHANGED <<now, ticks, stations, fuelPrices, priceIds, syncLog,
                   syncState, last, run>>

\* await fetch(protected endpoint) of the second call
PeerRequest(status) ==
    /\ client.peer.pc = "request"
    /\ client.peer.requests < MaxRequests
    /\ client' = Swap(RequestOf(Swap(client), status))
    /\ UNCHANGED <<now, ticks, stations, fuelPrices, priceIds, syncLog,
                   syncState, last, run>>

----------------------------------------------------------------------------
(* Initial state: an empty store, no run in flight *)

Init ==
    /\ now = 1
    /\ ticks = 0
    /\ stations = <<>>
    /\ fuelPrices = <<>>
    /\ priceIds = 0
    /\ syncLog = <<>>
    /\ syncState = [k \in {"last_station_sync", "last_price_sync"} |-> 0]
    /\ last = [op |-> "none", args |-> <<>>, ret |-> <<>>, pre |-> 0]
    /\ run = NoRun
    /\ client = NewClient

\* The store after a station sync: station 1 is known
InitSynced ==
    /\ now = 1
    /\ ticks = 0
    /\ stations = <<NewStation([externalId |-> 1, name |-> "n1", brand |-> "b1"], 1, 1)>>
    /\ fuelPrices = <<>>
    /\ priceIds = 0
    /\ syncLog = <<>>
    /\ syncState = [k \in {"last_station_sync", "last_price_sync"} |-> 0]
    /\ last = [op |-> "none", args |-> <<>>, ret |-> <<>>, pre |-> 0]
    /\ run = NoRun
    /\ client = NewClient

\* The store after a station sync that has upserted the stations 1 and 2
InitTwoStations ==
    /\ now = 1
    /\ ticks = 0
    /\ stations = <<NewStation([externalId |-> 1, name |-> "n1", brand |-> "b1"], 1, 1),
                    NewStation([externalId |-> 2, name |-> "n2", brand |-> Absent], 1, 2)>>
    /\ fuelPrices = <<>>
    /\ priceIds = 0
    /\ syncLog = <<>>
    /\ syncState = [k \in {"last_station_sync", "last_price_sync"} |-> 0]
    /\ last = [op |-> "none", args |-> <<>>, ret |-> <<>>, pre |-> 0]
    /\ run = NoRun
    /\ client = NewClient

----------------------------------------------------------------------------
(* The reconciler's specification: calls of addPrice and batchAddPrices *)

NextPrices ==
    \/ \E d \in ClockSteps : Tick(d)
    \/ \E a \in PriceArgs : AddPrice(a)
    \/ \E as \in SeqsUpTo(PriceArgs, MaxBatchLen) : BatchAddPrices(as)

SpecPrices == Init /\ [][NextPrices]_vars

(* The reconciler under two calls in flight at once, on an empty table or on
   one observation stored at time 1; the clock stands while calls are in
   flight. *)

InitOverlap ==
    /\ now = 1
    /\ ticks = 0
    /\ stations = <<>>
    /\ \E r \in {BatchAddTo(<<>>, 0, as, 1) : as \in {<<>>} \cup SeqsUpTo(PriceArgs, 1)} :
        /\ fuelPrices = r.prices
        /\ priceIds = r.n
    /\ syncLog = <<>>
    /\ syncState = [k \in {"last_station_sync", "last_price_sync"} |-> 0]
    /\ last = [op |-> "none", args |-> <<>>, ret |-> <<>>, pre |-> 0]
    /\ run = NoRun
    /\ client = NewClient

NextOverlap ==
    \/ \E d \in ClockSteps : last.op # "inFlight" /\ Tick(d)
    \/ /\ last.op # "inFlight"
       /\ \E c1 \in MutationCalls : \E c2 \in SameKeyCalls(c1) : InvokeTwo(c1, c2)
    \/ \E k \in 1..2 : RunMutation(k)

SpecOverlap == InitOverlap /\ [][NextOverlap]_vars

(* One call of batchAddPrices, at any time, on an empty table or on one
   observation stored at time 1 *)

NextReorder ==
    \/ \E d \in ClockSteps : Tick(d)
    \/ last.op = "none" /\ \E as \in MutationCalls : BatchAddPrices(as)

SpecReorder == InitOverlap /\ [][NextReorder]_vars

(* The reconciler's calls and the query of the current prices *)

NextCurrentPrices ==
    \/ \E d \in ClockSteps : Tick(d)
    \/ \E a \in PriceArgs : AddPrice(a)
    \/ \E as \in SeqsUpTo(PriceArgs, MaxBatchLen) : BatchAddPrices(as)
    \/ \E s \in StationIds : GetCurrentPrices(s)

SpecCurrentPrices == Init /\ [][NextCurrentPrices]_vars

(* The station table's specification: calls of the two upserts *)

NextStations ==
    \/ \E d \in ClockSteps : Tick(d)
    \/ \E a \in StationArgs : UpsertStation(a)
    \/ \E as \in SeqsUpTo(StationArgs, MaxBatchLen) : BatchUpsertStations(as)

SpecStations == Init /\ [][NextStations]_vars

(* The station lookups over a store that upserts fill *)

NextLookup ==
    \/ \E a \in StationArgs : UpsertStation(a)
    \/ \E ids \in IdLists : GetStationIdsBatch(ids)
    \/ \E ids \in IdLists : BuildStationMap(ids)

SpecLookup == Init /\ [][NextLookup]_vars

(* The lookups of the price syncs over a store that a station sync has
   filled *)

PriceSyncKinds == {"syncPrices", "cron", "daemon", "syncLocal"}

\* The station tables after a station sync of no, one or two stations
SyncedStores ==
    {BatchUpsertTo(<<>>, as, 1).rows :
        as \in {<<>>} \cup SeqsUpTo({a \in StationArgs : a.brand # Absent}, 2)}

InitResolve ==
    /\ now = 1
    /\ ticks = 0
    /\ stations \in SyncedStores
    /\ fuelPrices = <<>>
    /\ priceIds = 0
    /\ syncLog = <<>>
    /\ syncState = [k \in {"last_station_sync", "last_price_sync"} |-> 0]
    /\ last = [op |-> "none", args |-> <<>>, ret |-> <<>>, pre |-> 0]
    /\ run = NoRun
    /\ client = NewClient

NextResolve ==
    \E kind \in PriceSyncKinds, ids \in IdLists : ResolveStations(kind, ids)

SpecResolve == InitResolve /\ [][NextResolve]_vars

(* normalizePostcode on the strings of PostcodeInputs, and on its results *)

InitPostcode ==
    /\ now = 1
    /\ ticks = 0
    /\ stations = <<>>
    /\ fuelPrices = <<>>
    /\ priceIds = 0
    /\ syncLog = <<>>
    /\ syncState = [k \in {"last_station_sync", "last_price_sync"} |-> 0]
    /\ \E postcode \in PostcodeInputs :
          last = [op |-> "postcode", args |-> <<postcode>>, ret |-> <<>>,
                  pre |-> 0]
    /\ run = NoRun
    /\ client = NewClient

NextPostcode ==
    \/ NormalizePostcode
    \/ NormalizeAgain

SpecPostcode == InitPostcode /\ [][NextPostcode]_vars

(* The same calls, and the maintenance script cleanup-bad-prices *)

NextMaintenance ==
    \/ NextPrices
    \/ CleanupBadPrices

SpecMaintenance == Init /\ [][NextMaintenance]_vars

(* The sync entry points: the Convex actions syncStations and syncPrices,
   the cron handler, the daemon and sync-local, one run at a time *)

RunStep ==
    \/ \E ok \in BOOLEAN : GetAccessToken(ok)
    \/ \E resp \in Responses(RecordsOf(run.kind)) :
            /\ Len(run.all) + Len(resp.items) <= MaxRecords
            /\ FetchBatch(resp)
    \/ \E ok \in BOOLEAN : WritePrice(ok)
    \/ \E ok \in BOOLEAN : WriteStations(ok)
    \/ \E ok \in BOOLEAN : UpsertChunk(ok)
    \/ \E ok \in BOOLEAN : InsertPrices(ok)
    \/ \E ok \in BOOLEAN : SetSyncState(ok)
    \/ \E ok \in BOOLEAN : CompleteSync(ok)
    \/ \E ok \in BOOLEAN : FailSync(ok)

NextSync ==
    \/ Tick(1)
    \/ \E kind \in ConvexKinds, ok \in BOOLEAN : StartSync(kind, ok)
    \/ \E kind \in ScriptKinds, authorized \in BOOLEAN : Invoke(kind, authorized)
    \/ RunStep

SpecSync == InitSynced /\ [][NextSync]_vars

\* The runtime runs the entry point in flight to its end
FairSpecSync == SpecSync /\ WF_vars(RunStep)

(* The client: calls of its public methods, the clock advancing between the
   steps of a call and between calls *)

InitClient ==
    /\ now = 1
    /\ ticks = 0
    /\ stations = <<>>
    /\ fuelPrices = <<>>
    /\ priceIds = 0
    /\ syncLog = <<>>
    /\ syncState = [k \in {"last_station_sync", "last_price_sync"} |-> 0]
    /\ last = [op |-> "none", args |-> <<>>, ret |-> <<>>, pre |-> 0]
    /\ run = NoRun
    /\ \E configured \in BOOLEAN : client = NewClientOf(configured)

NextClient ==
    \/ \E d \in ClientClockSteps : Tick(d)
    \/ \E api \in ClientApis : Search(api)
    \/ \E body \in TokenBodies(client.issued + 1) \cup {TokenError} :
            ClientGetAccessToken(body)
    \/ \E status \in Statuses : Request(status)

SpecClient == InitClient /\ [][NextClient]_vars

(* Two calls of searchByPostcode in flight at once on one FuelFinderClient;
   the token endpoint answers with a token, the protected endpoint with 200
   or 401. *)

\* The 2xx token responses with the token at the top level
PlainTokenBodies(t) ==
    {b \in TokenBodies(t) : b.data = NoData /\ b.access_token = t}

NextConcurrent ==
    \/ Search("searchByPostcode")
    \/ \E body \in PlainTokenBodies(client.issued + 1) : ClientGetAccessToken(body)
    \/ \E status \in {200, 401} : Request(status)
    \/ PeerSearch("searchByPostcode")
    \/ \E body \in PlainTokenBodies(client.issued + 1) : PeerGetAccessToken(body)
    \/ \E status \in {200, 401} : PeerRequest(status)

SpecConcurrent == InitClient /\ [][NextConcurrent]_vars

(* A station sync of a fetched list into the empty store, at any time *)

NextStationIds ==
    \/ \E d \in ClockSteps : Tick(d)
    \/ \E kind \in StationKinds, recs \in FetchedStationLists :
            SyncStationRecords(kind, recs)

SpecStationIds == Init /\ [][NextStationIds]_vars

(* sync-local's station sync over one batch of station records, every
   record of which is followed *)

NextStationWrite ==
    \/ Invoke("syncLocalStations", TRUE)
    \/ \E ok \in BOOLEAN : GetAccessToken(ok)
    \/ \E resp \in StationUpdatePages \cup {ErrorResponse} : FetchBatch(resp)
    \/ \E ok \in BOOLEAN : UpsertChunk(ok)

SpecStationWrite == Init /\ [][NextStationWrite]_vars

(* The price syncs (the Convex action syncPrices and sync-local) over one
   batch of price records, every record of which is followed *)

NextPriceSync ==
    \/ \E ok \in BOOLEAN : StartSync("syncPrices", ok)
    \/ Invoke("syncLocal", TRUE)
    \/ \E ok \in BOOLEAN : GetAccessToken(ok)
    \/ \E resp \in UpdatePages \cup {ErrorResponse} : FetchBatch(resp)
    \/ \E ok \in BOOLEAN : WritePrice(ok)
    \/ \E ok \in BOOLEAN : InsertPrices(ok)
    \/ \E ok \in BOOLEAN : SetSyncState(ok)
    \/ \E ok \in BOOLEAN : CompleteSync(ok)
    \/ \E ok \in BOOLEAN : FailSync(ok)

SpecPriceSync == InitTwoStations /\ [][NextPriceSync]_vars

(* The uncapped entry points against an upstream that may answer every batch
   request with a full batch; every store call and the token request
   succeed, every batch request is answered *)

EndlessStep ==
    \/ GetAccessToken(TRUE)
    \/ \E resp \in Responses(RecordsOf(run.kind)) :
            /\ Len(run.all) + Len(resp.items) <= MaxRecords
            /\ FetchBatch(resp)
    \/ FetchFullAgain
    \/ WritePrice(TRUE)
    \/ WriteStations(TRUE)
    \/ UpsertChunk(TRUE)
    \/ SetSyncState(TRUE)
    \/ CompleteSync(TRUE)
    \/ FailSync(TRUE)

NextEndless ==
    \/ \E kind \in ConvexKinds : StartSync(kind, TRUE)
    \/ Invoke("syncLocalStations", TRUE)
    \/ EndlessStep

SpecEndless == InitSynced /\ [][NextEndless]_vars

\* The runtime runs the entry point in flight on, and the upstream answers
FairSpecEndless == SpecEndless /\ WF_vars(EndlessStep)

(* The daemon: the initial run, the runs of the interval timer and SIGINT,
   over an upstream of one short batch *)

DaemonResponses == {r \in Responses(PriceRecords) : r.size < FullBatch}

NextDaemon ==
    \/ run.no = 0 /\ Invoke("daemon", TRUE)
    \/ TimerFires
    \/ \E k \in 1..MaxTimerRuns : Resume(k)
    \/ Sigint
    \/ \E ok \in BOOLEAN : GetAccessToken(ok)
    \/ \E resp \in DaemonResponses : FetchBatch(resp)
    \/ \E ok \in BOOLEAN : InsertPrices(ok)

SpecDaemon == InitSynced /\ [][NextDaemon]_vars

(* The cron handler: a request with an Authorization header arrives at a
   deployment with or without CRON_SECRET *)

\* process.env.CRON_SECRET is not set
Unset == "<unset>"

CronSecrets == {Unset, "s1"}

\* request.headers['authorization']: none, or the text of the header as the
\* pieces it is compared by
AuthHeaders ==
    {<<>>, <<"s1">>, <<"Bearer ", "s1">>, <<"Bearer ", "s2">>,
     <<"Bearer ", "undefined">>}

\* `Bearer ${process.env.CRON_SECRET}`: the template writes undefined as the
\* text "undefined"
ExpectedHeader(secret) ==
    <<"Bearer ", IF secret = Unset THEN "undefined" ELSE secret>>

\* The handler is called: 401 if authHeader !== `Bearer ${CRON_SECRET}`
HandleRequest(header, secret) ==
    /\ run.pc \in {"idle", "done"}
    /\ run.no < MaxRuns
    /\ run' = IF header # ExpectedHeader(secret)
              THEN Ended(NewRun("cron", "auth"), "unauthorized")
              ELSE NewRun("cron", "token")
    /\ last' = [op |-> "cronRequest",
                args |-> [header |-> header, secret |-> secret],
                ret |-> <<>>, pre |-> 0]
    /\ UNCHANGED <<now, ticks, client, stations, fuelPrices, priceIds, syncLog,
                   syncState>>

NextCron ==
    \/ \E header \in AuthHeaders, secret \in CronSecrets :
            HandleRequest(header, secret)
    \/ \E ok \in BOOLEAN : GetAccessToken(ok)
    \/ \E resp \in Responses(PriceRecords) : FetchBatch(resp)
    \/ \E ok \in BOOLEAN : InsertPrices(ok)

SpecCron == InitSynced /\ [][NextCron]_vars

(* The capped price fetch of the cron handler and of the daemon against an
   upstream that holds more than BatchCap full batches *)

\* One request of the capped fetch loop and what the loop does with the
\* response, whatever the number of the batch
FetchCapped(resp) ==
    /\ run.pc = "fetch"
    /\ run.kind \in {"cron", "daemon"}
    /\ Len(run.all) + Len(resp.items) <= MaxRecords
    /\ run' = LoopCapped([run EXCEPT !.reqs = Append(@, [n |-> run.batchNumber,
                                                         ok |-> resp.ok,
                                                         size |-> resp.size])],
                         resp)
    /\ UNCHANGED <<now, ticks, client, stations, fuelPrices, priceIds, syncLog,
                   syncState, last>>

NextCapped ==
    \/ \E kind \in {"cron", "daemon"} : Invoke(kind, TRUE)
    \/ \E ok \in BOOLEAN : GetAccessToken(ok)
    \/ \E resp \in Responses(PriceRecords) : FetchCapped(resp)
    \/ \E ok \in BOOLEAN : InsertPrices(ok)

SpecCapped == InitSynced /\ [][NextCapped]_vars

(* The price syncs over one batch of prices of station 1 under the
   upstream's names of fuel types *)

NextFuelTypes ==
    \/ \E ok \in BOOLEAN : StartSync("syncPrices", ok)
    \/ Invoke("syncLocal", TRUE)
    \/ \E ok \in BOOLEAN : GetAccessToken(ok)
    \/ \E resp \in FuelTypePages \cup {ErrorResponse} : FetchBatch(resp)
    \/ \E ok \in BOOLEAN : WritePrice(ok)
    \/ \E ok \in BOOLEAN : InsertPrices(ok)
    \/ \E ok \in BOOLEAN : SetSyncState(ok)
    \/ \E ok \in BOOLEAN : CompleteSync(ok)
    \/ \E ok \in BOOLEAN : FailSync(ok)

SpecFuelTypes == InitTwoStations /\ [][NextFuelTypes]_vars

(* Every entry point over an upstream whose batches are followed record by
   record *)

NextBatches ==
    \/ \E kind \in ConvexKinds, ok \in BOOLEAN : StartSync(kind, ok)
    \/ \E kind \in ScriptKinds : Invoke(kind, TRUE)
    \/ \E ok \in BOOLEAN : GetAccessToken(ok)
    \/ \E resp \in SequencedPages(run.kind, run.batchNumber)
                       \cup {ErrorResponse} : FetchBatch(resp)
    \/ \E ok \in BOOLEAN : WritePrice(ok)
    \/ \E ok \in BOOLEAN : WriteStations(ok)
    \/ \E ok \in BOOLEAN : UpsertChunk(ok)
    \/ \E ok \in BOOLEAN : InsertPrices(ok)
    \/ \E ok \in BOOLEAN : SetSyncState(ok)
    \/ \E ok \in BOOLEAN : CompleteSync(ok)
    \/ \E ok \in BOOLEAN : FailSync(ok)

SpecBatches == InitTwoStations /\ [][NextBatches]_vars

(* The price scripts (cron handler, daemon, sync-local) over one batch of
   prices of a known station in the upstream's notations *)

NextPriceText ==
    \/ \E kind \in {"cron", "daemon", "syncLocal"}, authorized \in BOOLEAN :
          Invoke(kind, authorized)
    \/ \E ok \in BOOLEAN : GetAccessToken(ok)
    \/ \E resp \in TextPages \cup {ErrorResponse} : FetchBatch(resp)
    \/ \E ok \in BOOLEAN : InsertPrices(ok)

SpecPriceText == InitTwoStations /\ [][NextPriceText]_vars

----------------------------------------------------------------------------
(* Claims about the price reconciler *)

\* The most recent observation of a key, as the claims speak of it: the one
\* with the greatest recordedAt (the one stored last among equals).
PriorObservation(rows, a) ==
    LET key == {i \in 1..Len(rows) : rows[i].stationId = a.stationId
                                       /\ rows[i].fuelType = a.fuelType}
    IN  IF key = {} THEN NoRow
        ELSE rows[CHOOSE i \in key : \A j \in key :
                    \/ rows[j].recordedAt < rows[i].recordedAt
                    \/ rows[j].recordedAt = rows[i].recordedAt /\ j <= i]

\* (a) no observation, (b) another price, (c) more than 3,600,000 ms later
MustWrite(rows, a, t) ==
    LET prior == PriorObservation(rows, a)
    IN  \/ prior = NoRow
        \/ prior.price # a.price
        \/ t - prior.recordedAt > 3600000

\* The rows `post` and the returned ids `ret` are what the decision rule
\* gives for the candidates `as`, taken in turn at time t, from rows `pre`.
RECURSIVE DecidedAsClaimed(_, _, _, _, _)
DecidedAsClaimed(pre, post, as, ret, t) ==
    IF as = <<>> THEN post = pre /\ ret = <<>>
    ELSE LET a == Head(as)
             k == Len(pre) + 1
         IN  /\ ret # <<>>
             /\ IF MustWrite(pre, a, t)
                THEN /\ Len(post) >= k
                     /\ post[k] = [id |-> Head(ret), stationId |-> a.stationId,
                                   fuelType |-> a.fuelType, price |-> a.price,
                                   recordedAt |-> t,
                                   sourceTimestamp |-> a.sourceTimestamp]
                     /\ \A i \in 1..Len(pre) : pre[i].id # Head(ret)
                     /\ DecidedAsClaimed(SubSeq(post, 1, k), post, Tail(as),
                                         Tail(ret), t)
                ELSE /\ Head(ret) = PriorObservation(pre, a).id
                     /\ DecidedAsClaimed(pre, post, Tail(as), Tail(ret), t)

History(s, f) ==
    SelectSeq(fuelPrices, LAMBDA r : r.stationId = s /\ r.fuelType = f)

C6_AppendOnly ==
    [][/\ Len(fuelPrices') >= Len(fuelPrices)
       /\ \A i \in 1..Len(fuelPrices) : fuelPrices'[i] = fuelPrices[i]]_vars

----------------------------------------------------------------------------
(* Claims about the stations table *)

RowsOf(e) == {i \in 1..Len(stations) : stations[i].externalId = e}

\* Every station row keeps its place, its store key and its externalId
StationsKept ==
    /\ Len(stations') >= Len(stations)
    /\ \A i \in 1..Len(stations) :
         /\ stations'[i].id = stations[i].id
         /\ stations'[i].externalId = stations[i].externalId

\* C4: the stations table holds exactly one record for each externalId ever
\* upserted, also when an externalId occurs twice in one batch: no two rows
\* share an externalId or a key, every upserted externalId has its row, and
\* no step deletes a row or changes a row's externalId or store key.
C4_OneStationPerExternalId ==
    /\ [](/\ \A i, j \in 1..Len(stations) :
                i # j => /\ stations[i].externalId # stations[j].externalId
                         /\ stations[i].id # stations[j].id
          /\ last.op \in {"upsertStation", "batchUpsertStations"} =>
                \A k \in 1..Len(last.args) :
                    /\ Cardinality(RowsOf(last.args[k].externalId)) = 1
                    /\ \A i \in RowsOf(last.args[k].externalId) :
                          stations[i].id = last.ret[k])
    /\ [][StationsKept]_vars

\* A batch that names one new externalId twice has made one row of it
C4_Witness ==
    /\ last.op = "batchUpsertStations"
    /\ Len(last.args) = 2
    /\ last.args[1].externalId = last.args[2].externalId
    /\ last.pre = 1
    /\ Len(stations) = 2
    /\ last.ret[1] = 2
    /\ last.ret[2] = 2

\* The last element of a batch that names externalId e
LatestFor(as, e) ==
    as[CHOOSE k \in 1..Len(as) :
         /\ as[k].externalId = e
         /\ \A m \in 1..Len(as) : as[m].externalId = e => m <= k]

\* C5 (as claimed): after an upsert the one stored record of the externalId
\* holds the fields of the latest input (name and brand, an absent brand
\* included), the call returned that record's key and lastSyncedAt is the
\* time of the call.
C5_LatestWins ==
    last.op \in {"upsertStation", "batchUpsertStations"} =>
        \A k \in 1..Len(last.args) :
            LET e == last.args[k].externalId
                a == LatestFor(last.args, e)
            IN  /\ Cardinality(RowsOf(e)) = 1
                /\ \A i \in RowsOf(e) :
                      /\ stations[i].name = a.name
                      /\ stations[i].brand = a.brand
                      /\ stations[i].lastSyncedAt = now
                      /\ stations[i].id = last.ret[k]

----------------------------------------------------------------------------
(* Claims about the sync runs *)

\* C3 (as claimed): no stored price observation is below 50p or above 300p,
\* whichever ingestion path wrote it.
C3_PricesInBand ==
    \A k \in 1..Len(fuelPrices) :
        /\ fuelPrices[k].price >= 50 * 100
        /\ fuelPrices[k].price <= 300 * 100

\* The entry points whose fetch loop has no cap on the batch number
Uncapped == ConvexKinds \cup {"syncLocal", "syncLocalStations"}

\* The fetch loop of the run has been left
FetchOver == run.pc \notin {"idle", "startSync", "auth", "token", "fetch"}

\* C7: the paginated fetch starts at batch-number 1, requests batch n+1 if
\* and only if batch n returned exactly 500 records, and stops after the
\* first batch that is empty or has fewer than 500 records: request k carries
\* batch-number k, every batch before the last one requested had exactly 500
\* records, and the loop is never left after a batch of 500 records.
C7_Pagination ==
    run.kind \in Uncapped =>
        /\ \A k \in 1..Len(run.reqs) : run.reqs[k].n = k
        /\ \A k \in 1..(Len(run.reqs) - 1) :
              run.reqs[k].ok /\ run.reqs[k].size = 500
        /\ run.pc = "fetch" =>
              /\ run.batchNumber = Len(run.reqs) + 1
              /\ run.all = <<>> \/ Len(run.reqs) > 0
        /\ (FetchOver /\ run.reqs # <<>>) =>
              LET lastReq == run.reqs[Len(run.reqs)]
              IN  ~(lastReq.ok /\ lastReq.size = 500)

\* Page sizes [500, 500, 287]: exactly 3 requests
C7_Witness ==
    /\ run.kind \in Uncapped
    /\ FetchOver
    /\ Len(run.reqs) = 3
    /\ run.reqs[1].size = 500
    /\ run.reqs[2].size = 500
    /\ run.reqs[3].size = 287
    /\ run.reqs[3].ok

\* A batch request of the run was answered non-2xx
FetchFailed == \E k \in 1..Len(run.reqs) : ~run.reqs[k].ok

\* C8 (as claimed): in every price-sync entry point a non-2xx response to a
\* batch request is fatal: the run does not end as a success and no price
\* observation has been written by it.
C8_FetchFailureFatal ==
    (/\ run.kind \in {"syncPrices", "cron", "daemon", "syncLocal"}
     /\ run.pc = "done"
     /\ FetchFailed)
    => /\ run.result # "success"
       /\ priceIds = run.pricesBefore

\* The only changes of syncLog: a new row with status started is appended,
\* or a row with status started is patched to completed or failed.
SyncLogStep ==
    /\ Len(syncLog') >= Len(syncLog)
    /\ \A k \in 1..Len(syncLog) :
          \/ syncLog'[k] = syncLog[k]
          \/ /\ syncLog[k].status = "started"
             /\ syncLog'[k].status \in {"completed", "failed"}
             /\ syncLog'[k].id = syncLog[k].id
    /\ \A k \in (Len(syncLog) + 1)..Len(syncLog') :
          syncLog'[k].status = "started"

\* C9 (as claimed): every syncLog row is created with status started and is
\* patched to a terminal status exactly once; the only transitions are
\* started -> completed and started -> failed, a terminal row is never
\* patched again and no row is deleted.
C9_Lifecycle ==
    /\ [][SyncLogStep]_vars
    /\ \A k \in 1..MaxRuns :
          (Len(syncLog) >= k) ~>
              (Len(syncLog) >= k /\ syncLog[k].status \in {"completed", "failed"})

\* C10 (as claimed): the watermarks are written only at successful
\* completion: a run that ended with status completed has set its watermark
\* in the course of its completion, and a run that ended with status failed
\* (or returned success: false) has left both watermarks as they were.
C10_WatermarkOnlyOnSuccess ==
    (run.kind \in ConvexKinds /\ run.pc = "done" /\ run.syncId # 0) =>
        LET row == syncLog[run.syncId]
            key == WatermarkKey(run.kind)
        IN  /\ row.status = "completed" =>
                 /\ syncState[key] >= row.startedAt
                 /\ syncState[key] <= row.completedAt
                 /\ \A k \in DOMAIN syncState :
                       k # key => syncState[k] = run.stateBefore[k]
            /\ (row.status = "failed" \/ run.result = "failure") =>
                 syncState = run.stateBefore

----------------------------------------------------------------------------
(* Claims about the counts of a price sync *)

\* The records of recs that name a station which the store does not hold
UnknownIn(recs) ==
    {k \in 1..Len(recs) :
        \A j \in 1..Len(stations) : stations[j].externalId # recs[k].station_id}

\* C11: when a price sync (syncPrices, sync-local) returns with its counts,
\* every fetched record is in exactly one of them: the number of records
\* fetched is processed + skipped + stationsNotFound + errored.
C11_EveryRecordAccounted ==
    (run.kind \in {"syncPrices", "syncLocal"} /\ run.pc = "done"
        /\ run.result = "success")
    => Len(run.all) = run.processed + run.skipped + run.notFound + run.errors

\* The run handles a record of an unknown station: nothing is written, the
\* record is counted and the loop goes on
UnknownStationStep ==
    (run.kind = "syncPrices" /\ run.pc = "write" /\ run' # run
        /\ run.i + 1 \in UnknownIn(run.all))
    => /\ fuelPrices' = fuelPrices
       /\ stations' = stations
       /\ run'.notFound = run.notFound + 1
       /\ run'.pc \in {"write", "setSyncState"}

\* The sync has fetched prices of the two known stations and of an unknown one
TwoKnownOneUnknown ==
    /\ Len(run.all) = 3
    /\ {run.all[k].station_id : k \in 1..3} = {1, 2, 3}
    /\ \A k \in 1..3 : run.all[k].fuel_type \in ValidFuelTypes

\* The counts of the unknown stations, and the rows of the scenario
UnknownCounted ==
    /\ \A k \in 1..Len(fuelPrices) :
          \E j \in 1..Len(stations) : stations[j].id = fuelPrices[k].stationId
    /\ {stations[j].externalId : j \in 1..Len(stations)} = {1, 2}
    /\ ((run.kind = "syncPrices"
            /\ run.pc \in {"write", "setSyncState", "completeSync"})
        => run.notFound = Cardinality(UnknownIn(SubSeq(run.all, 1, run.i))))
    /\ ((run.kind = "syncPrices" /\ run.pc = "done" /\ run.result = "success")
        => run.notFound = Cardinality(UnknownIn(run.all)))
    /\ ((run.kind = "syncLocal" /\ run.pc = "done" /\ run.result = "success")
        => run.skipped >= Cardinality(UnknownIn(run.all)))
    /\ ((run.kind \in {"syncPrices", "syncLocal"} /\ run.pc = "done"
            /\ run.result = "success" /\ run.errors = 0
            /\ run.pricesBefore = 0 /\ TwoKnownOneUnknown)
        => Len(fuelPrices) = 2)

----------------------------------------------------------------------------
(* Claims about the client's token *)

\* A step of getAccessToken
TokenStep == client.pc = "token" /\ client' # client

\* A token is cached and its recorded expiry is more than 60 seconds away
FreshCached ==
    client.accessToken # 0 /\ client.tokenExpiry # 0
        /\ client.tokenExpiry - now > 60 * 1000

\* The access_token and expires_in of a token response, in either shape
TokenOf(body) ==
    IF body.data = NoData THEN body.access_token ELSE body.data.access_token

LifetimeOf(body) ==
    IF body.data = NoData THEN body.expires_in ELSE body.data.expires_in

\* getAccessToken returns the cached token without a token request exactly
\* when FreshCached; otherwise it makes one exchange and caches its token
\* with expiry = now + expires_in seconds
CacheRule ==
    TokenStep =>
        IF FreshCached
        THEN /\ client'.exchanges = client.exchanges
             /\ client'.pc = "request"
             /\ client'.token = client.accessToken
             /\ client'.accessToken = client.accessToken
             /\ client'.tokenExpiry = client.tokenExpiry
        ELSE /\ client'.exchanges = client.exchanges + 1
             /\ client'.body.ok =>
                   /\ client'.pc = "request"
                   /\ client'.accessToken = TokenOf(client'.body)
                   /\ client'.tokenExpiry = now + LifetimeOf(client'.body) * 1000
                   /\ client'.token = client'.accessToken

\* A token that getAccessToken hands over has more than 60 seconds left
HandedTokenFresh ==
    (TokenStep /\ client'.pc = "request" /\ client'.token # 0)
    => client'.tokenExpiry - now > 60 * 1000

\* The token handed over comes from the cache
FromCache == TokenStep /\ client'.exchanges = client.exchanges

\* C13 (as amended): getAccessToken returns the cached token without a token
\* request exactly when a token is cached and its recorded expiry is more
\* than 60 seconds in the future; otherwise it performs one exchange and
\* caches the new token with expiry = now + expires_in seconds.  A token
\* handed over from the cache has more than 60 seconds left.
C13_CachedTokenRule ==
    [][CacheRule /\ (FromCache => HandedTokenFresh)]_vars

\* C13 as stated: the same, and no token that expires within the next 60
\* seconds is handed to a caller, a token just obtained included
C13_NoExpiringTokenHanded == [][CacheRule /\ HandedTokenFresh]_vars

\* A second call, 59.999 seconds after the exchange of a 120-second token,
\* has got the cached token without an exchange
C13_Witness ==
    /\ client.calls = 2
    /\ client.pc = "request"
    /\ client.exchanges = 0
    /\ client.token # 0
    /\ client.token = client.accessToken
    /\ now = 1 + BufferMs - 1
    /\ client.tokenExpiry = 1 + 120 * 1000

\* C14: one call of searchByPostcode, searchByLocation or getAllPrices makes
\* at most two requests to the protected endpoint and at most two token
\* exchanges, and a call whose retry is answered with 401 too returns the
\* HTTP_401 error.
C14_RetryOnce ==
    /\ client.requests <= 2
    /\ client.exchanges <= 2
    /\ (Len(client.statuses) >= 2 /\ client.statuses[1] = 401
            /\ client.statuses[2] = 401)
        => (client.pc = "idle" /\ client.result = "HTTP_401")

\* An exchange whose response is non-2xx or holds no access_token
FailedExchange ==
    /\ TokenStep
    /\ client'.exchanges = client.exchanges + 1
    /\ (~client'.body.ok \/ TokenOf(client'.body) = 0)

\* C15: an exchange whose response is non-2xx or holds no access_token in
\* either shape raises an error to the caller and leaves no token and no
\* expiry cached; getAccessToken makes at most one exchange and never
\* returns an empty token.
C15_FailedExchangeRaises ==
    /\ [][FailedExchange =>
            /\ client'.pc = "idle"
            /\ client'.result = CatchCode(client.api)
            /\ client'.accessToken = 0
            /\ client'.tokenExpiry = 0]_vars
    /\ [][TokenStep =>
            /\ client'.exchanges <= client.exchanges + 1
            /\ client'.pc = "request" => client'.token # 0]_vars

----------------------------------------------------------------------------
(* Claims about failures inside a run *)

\* C16: syncStations and syncPrices never throw past the orchestrator
\* boundary: a run that startSync has opened ends with a structured result,
\* and when that result is {success: false, error} the SyncRun is marked
\* failed.
C16_NoThrowPastBoundary ==
    (run.kind \in ConvexKinds /\ run.pc = "done" /\ run.syncId # 0)
    => /\ run.result \in {"success", "failure"}
       /\ (run.result = "failure" => syncLog[run.syncId].status = "failed")

\* C17: a chunk write of sync-local that fails is repeated, a second after
\* the failure, up to 3 attempts; the chunk is counted as errored only when
\* the last of them has failed, and a chunk that is written is counted as
\* processed once and not as errored.
C17_RetriedThenErrored ==
    [][(run.kind \in {"syncLocal", "syncLocalStations"} /\ run.pc = "write")
       => /\ (run'.errors > run.errors => run.tries + 1 = Retries)
          /\ (run'.tries > run.tries => now' = now + RetryWaitMs)
          /\ (run'.processed > run.processed => run'.errors = run.errors)]_vars

\* C18: the failure of a chunk write never aborts the run, in any entry
\* point: no step of the write loop ends the run as a failure or takes it to
\* the catch block.
C18_ChunkFailureNotFatal ==
    [][run.pc = "write"
       => (run'.pc # "failSync" /\ run'.result \notin {"failure", "thrown"})]_vars

\* C19: the station writer of sync-local ends with processed + errored = n,
\* and it counts a record as processed, once, only when the record has been
\* written to the store.
C19_WriterAccounting ==
    /\ []((run.kind = "syncLocalStations" /\ run.pc = "done"
               /\ run.result = "success")
           => run.processed + run.errors = Len(run.all))
    /\ [][(run.kind = "syncLocalStations" /\ run.pc = "write"
               /\ run'.processed > run.processed)
           => /\ run'.processed = run.processed + 1
              /\ \E k \in 1..Len(stations') :
                    /\ stations'[k].externalId = run.all[run.i + 1].station_id
                    /\ stations'[k].name = run.all[run.i + 1].name
                    /\ stations'[k].lastSyncedAt = now]_vars

----------------------------------------------------------------------------
(* Claims about the station lookup *)

\* The external ids among ids[1..n] that have a station in the store
KnownAmong(ids, n) ==
    {ids[i] : i \in {j \in 1..n : \E k \in 1..Len(stations) :
                                    stations[k].externalId = ids[j]}}

\* m maps exactly the ids of S, each to the key of its station
MapsToKeys(m, S) ==
    /\ DOMAIN m = S
    /\ \A e \in S : \E k \in 1..Len(stations) :
          stations[k].externalId = e /\ stations[k].id = m[e]

\* C20 (as amended): getStationIdsBatch returns a mapping whose keys are
\* exactly those of the first 500 input ids that have a station in the store,
\* each mapped to that station's key: for a list of at most 500 ids, exactly
\* the input ids that have a station.  The daemon's station map, built from
\* queries of at most 500 ids each, holds exactly the ids that have a
\* station, for lists of every length.
C20_LookupFirstIds ==
    /\ (last.op = "getStationIdsBatch"
        => MapsToKeys(last.ret, KnownAmong(last.args, Min(Len(last.args), 500))))
    /\ (last.op = "stationMap"
        => MapsToKeys(last.ret, KnownAmong(last.args, Len(last.args))))

\* C20 as stated: the keys are exactly the input ids that have a station,
\* for input lists of every length
C20_LookupExact ==
    last.op = "getStationIdsBatch"
    => MapsToKeys(last.ret, KnownAmong(last.args, Len(last.args)))

\* A lookup of a known and an unknown id has returned the known one alone
C20_Witness ==
    /\ last.op = "getStationIdsBatch"
    /\ last.args = <<1, 3>>
    /\ DOMAIN last.ret = {1}
    /\ \E k \in 1..Len(stations) : stations[k].externalId = 1

----------------------------------------------------------------------------
(* Claims about the normalisation of a fetched price *)

\* The fuel type that a raw upstream fuel type is to be stored under, "reject"
\* for a type that is not recognised
MapFuelType(f) ==
    IF f \in {"B7_STANDARD", "B7P"} THEN "Diesel"
    ELSE IF f \in {"B7_PREMIUM", "B7S"} THEN "Super Diesel"
    ELSE IF f = "E5_PREMIUM" THEN "E5"
    ELSE IF f \in ValidFuelTypes THEN f
    ELSE "reject"

\* The fuel types under which the arguments as hold a price of station s
TypesPushed(as, s) ==
    {as[k].fuelType : k \in {j \in 1..Len(as) : as[j].stationId = s}}

\* syncPrices handles a record of a known station as the mapping says: a
\* recognised type is written under its canonical name, another one is
\* skipped and counted, and the loop goes on
ConvexFuelTypeStep ==
    (run.kind = "syncPrices" /\ run.pc = "write"
        /\ StationIdOf(run.all[run.i + 1].station_id) # 0)
    => LET rec == run.all[run.i + 1]
           f == MapFuelType(rec.fuel_type)
       IN  IF f = "reject"
           THEN /\ fuelPrices' = fuelPrices
                /\ run'.pc \in {"write", "setSyncState"}
                /\ run'.skipped = run.skipped + 1
           ELSE run'.i = run.i + 1
                => /\ run'.processed = run.processed + 1
                   /\ last'.op = "addPrice"
                   /\ last'.args[1].fuelType = f

\* sync-local pushes the records of known stations as the mapping says
LocalFuelTypeStep ==
    (run.kind = "syncLocal" /\ run.pc = "write" /\ run'.processed > 0)
    => \A k \in 1..Len(run.all) :
          LET rec == run.all[k]
              f == MapFuelType(rec.fuel_type)
              s == StationIdOf(rec.station_id)
          IN  s # 0 =>
                /\ f # "reject" => f \in TypesPushed(last'.args, s)
                /\ rec.fuel_type \notin ValidFuelTypes
                     => rec.fuel_type \notin TypesPushed(last'.args, s)

\* C21: a fetched price is stored under the canonical name of its fuel type
\* (B7_STANDARD and B7P are Diesel, B7_PREMIUM and B7S are Super Diesel,
\* E5_PREMIUM is E5, the six canonical names are themselves); a price of any
\* other type is skipped and counted, is not stored, and the run goes on.
C21_FuelTypeNormalised ==
    [][ConvexFuelTypeStep /\ LocalFuelTypeStep]_vars

\* The pence that a price string is to be stored as: the number it writes
\* after one apostrophe and the zeros in front, without its decimals; NaN
\* stands for a string that is rejected (no number, below 50p, above 300p)
ParsePrice(s) ==
    LET v == ParseFloat(StripPrice(s))
        pence == (v \div 100) * 100
    IN  IF v = NaN \/ pence < 50 * 100 \/ pence > 300 * 100 THEN NaN ELSE pence

\* The prices to store for the records recs, in their order
RECURSIVE ParsedPrices(_)
ParsedPrices(recs) ==
    IF recs = <<>> THEN <<>>
    ELSE (IF ParsePrice(Head(recs).price) = NaN THEN <<>>
          ELSE <<ParsePrice(Head(recs).price)>>)
         \o ParsedPrices(Tail(recs))

\* A price script hands the store the normalised prices of what it fetched
PricesPushedParsed ==
    (run.kind \in ScriptKinds /\ run.pc = "write" /\ run'.result = "success"
        /\ run'.errors = run.errors)
    => [k \in 1..Len(last'.args) |-> last'.args[k].price] = ParsedPrices(run.all)

\* Every stored price is a whole number of pence
IntegerPence == \A k \in 1..Len(fuelPrices) : fuelPrices[k].price % 100 = 0

\* C22: a price string is normalised to integer pence after one leading
\* apostrophe and the leading zeros are stripped ("'0126.9000" is 126),
\* "0049.0000" and "0301.0000" are rejected, and every price that reaches the
\* store is a whole number of pence.
C22_IntegerPence == []IntegerPence /\ [][PricesPushedParsed]_vars

----------------------------------------------------------------------------
(* Claims about the station sync *)

\* C23: a station sync that ends without a failed write has upserted every
\* fetched station record, a record without a postcode included: each
\* fetched external id has its station in the store (3 fetched records, one
\* of them without a postcode, leave 3 stations).
C23_EveryStationUpserted ==
    (run.kind \in StationKinds /\ run.pc = "done" /\ run.result = "success"
        /\ run.errors = 0)
    => \A k \in 1..Len(run.all) : StationIdOf(run.all[k].station_id) # 0

----------------------------------------------------------------------------
(* Claims about normalizePostcode *)

\* The characters of s that are not white space
NonBlank(s) == Len(RemoveWhitespace(s))

\* C24: normalizePostcode returns a string for every input string, and a
\* second call on its result returns that result again, also for inputs
\* whose length without white space is outside 5..7 and for inputs with inner
\* or repeated white space.
C24_NormalizeIdempotent ==
    last.op = "normalizePostcode"
    => /\ \A k \in 1..Len(last.ret) : last.ret[k] \in Seq(STRING)
       /\ Len(last.ret) = 2 => last.ret[2] = last.ret[1]

\* The second call has returned for an input of 4 characters and 2 inner
\* blanks, whose result is not the input
C24_Witness ==
    /\ last.op = "normalizePostcode"
    /\ Len(last.ret) = 2
    /\ last.args[1] = <<"w", "9", " ", " ", "9", "w">>
    /\ last.ret[1] = <<"W", "9", " ", " ", "9", "W">>

\* C25: with c the input without its white space, in upper case: if c has 5
\* to 7 characters the result is c without its last 3 characters, a blank,
\* and the last 3 characters of c ("wf92wf" gives "WF9 2WF", "SW1A1AA" gives
\* "SW1A 1AA", "WF9 2WF" gives "WF9 2WF"); otherwise the result is the input
\* trimmed and in upper case.
C25_NormalizeResult ==
    last.op = "normalizePostcode"
    => LET x == last.args[1]
           c == ToUpperCase(RemoveWhitespace(x))
           n == Len(c)
           r == last.ret[1]
       IN  /\ (n >= 5 /\ n <= 7)
                => r = SubSeq(c, 1, n - 3) \o <<" ">> \o SubSeq(c, n - 2, n)
           /\ (n < 5 \/ n > 7) => r = ToUpperCase(Trim(x))
           /\ x = <<"w", "f", "9", "2", "w", "f">>
                => r = <<"W", "F", "9", " ", "2", "W", "F">>
           /\ x = <<"S", "W", "1", "A", "1", "A", "A">>
                => r = <<"S", "W", "1", "A", " ", "1", "A", "A">>
           /\ x = <<"W", "F", "9", " ", "2", "W", "F">> => r = x

\* normalizePostcode("SW1A1AA") has returned "SW1A 1AA"
C25_Witness ==
    /\ last.op = "normalizePostcode"
    /\ last.args[1] = <<"S", "W", "1", "A", "1", "A", "A">>
    /\ last.ret[1] = <<"S", "W", "1", "A", " ", "1", "A", "A">>

----------------------------------------------------------------------------
(* Claims about the queries of the price table *)

\* C26: getCurrentPrices(stationId) returns one observation for each fuel
\* type that has an observation for the station and none for another, and
\* that observation is the most recent one of (stationId, fuelType): the one
\* that the reconciler compares a candidate against, also when observations
\* of a key share their recordedAt.
C26_CurrentIsMostRecent ==
    last.op = "getCurrentPrices"
    => LET s == last.args[1]
       IN  \A f \in FuelTypes :
              LET got == {k \in 1..Len(last.ret) : last.ret[k].fuelType = f}
              IN  IF KeyRows(fuelPrices, s, f) = {} THEN got = {}
                  ELSE /\ Cardinality(got) = 1
                       /\ \A k \in got :
                             last.ret[k] = MostRecent(fuelPrices, s, f)

----------------------------------------------------------------------------
(* Claims about the order of the batch requests *)

\* The records of the batches that the requests reqs were answered with
RECURSIVE BatchesOf(_, _)
BatchesOf(kind, reqs) ==
    IF reqs = <<>> THEN <<>>
    ELSE LET q == reqs[Len(reqs)]
         IN  BatchesOf(kind, SubSeq(reqs, 1, Len(reqs) - 1))
             \o (IF q.ok THEN BatchItems(kind, q.n, q.size) ELSE <<>>)

\* The requests of a run are numbered 1, 2, 3, ... and its records are the
\* records of the answered batches in the order of the requests
InBatchOrder ==
    /\ \A k \in 1..Len(run.reqs) : run.reqs[k].n = k
    /\ run.all = BatchesOf(run.kind, run.reqs)

\* A request is made in the fetch loop only, one at a time, after the
\* requests before it were answered; the records change with a request only
OneRequestAtATime ==
    run'.no = run.no
    => /\ run'.reqs # run.reqs
           => /\ run.pc = "fetch"
              /\ Len(run'.reqs) = Len(run.reqs) + 1
              /\ SubSeq(run'.reqs, 1, Len(run.reqs)) = run.reqs
       /\ run'.all # run.all => run'.reqs # run.reqs

\* C27: within one sync run the batch requests are made one after the other
\* with batch-number 1, 2, 3, ..., none skipped or repeated, each after the
\* response to the one before, and the fetched records are the batches'
\* records joined in that order.
C27_SequentialBatches == []InBatchOrder /\ [][OneRequestAtATime]_vars

\* Three batches of sizes 500, 500, 287: five followed records in order
C27_Witness ==
    /\ Len(run.reqs) = 3
    /\ run.reqs[3].size = 287
    /\ Len(run.all) = 5
    /\ {run.all[k].station_id : k \in 1..2} = {1}
    /\ {run.all[k].station_id : k \in 3..4} = {2}
    /\ run.all[5].station_id = 3
    /\ run.pc = "done"

\* C28: no price update is lost between two incremental price runs: once a
\* syncPrices run has ended in success, the lower bound that the next run
\* reads from SyncState is not later than the instant up to which that run
\* fetched updates.
C28_NoUpdateLost ==
    (run.kind = "syncPrices" /\ run.pc = "done" /\ run.result = "success")
        => SinceTimestamp <= run.fetchedAt

\* The rows that the handlers of the calls in flight have added
AddedInFlight == {fuelPrices[i] : i \in (last.pre + 1)..Len(fuelPrices)}

\* The rows before the j-th handler ran and after it
RowsAround(j) ==
    [pre |-> SubSeq(fuelPrices, 1, last.ret[j].pre),
     post |-> SubSeq(fuelPrices, 1, IF j < Len(last.ret) THEN last.ret[j + 1].pre
                                    ELSE Len(fuelPrices))]

\* C29: reconciliation is serialized per key: of two addPrice or
\* batchAddPrices calls in flight at once with candidates for the same key,
\* each decides by the most recent observation as it is when its handler
\* runs, the other call's insert included, so that the two never both insert
\* the same price for a key on the 'no prior' or the 'more than an hour'
\* condition: two rows they add for a key with one price have a row of
\* another price between them, and two equal addPrice calls add at most one.
C29_SerializedPerKey ==
    last.op = "inFlight" =>
        /\ \A j \in 1..Len(last.ret) :
              DecidedAsClaimed(RowsAround(j).pre, RowsAround(j).post,
                               last.args[last.ret[j].call], last.ret[j].ids, now)
        /\ \A r1, r2 \in AddedInFlight :
              (/\ r1.id < r2.id
               /\ r1.stationId = r2.stationId
               /\ r1.fuelType = r2.fuelType
               /\ r1.price = r2.price)
              => \E x \in AddedInFlight :
                    /\ r1.id < x.id /\ x.id < r2.id
                    /\ x.stationId = r1.stationId
                    /\ x.fuelType = r1.fuelType
                    /\ x.price # r1.price
        /\ (Len(last.args[1]) = 1 /\ last.args[1] = last.args[2])
              => Cardinality(AddedInFlight) <= 1

\* Two equal addPrice calls in flight more than an hour after the stored
\* observation of their price: both handlers have run, one row was added and
\* both calls were answered with its id.
C29_Witness ==
    /\ last.op = "inFlight"
    /\ Len(last.ret) = 2
    /\ Len(last.args[1]) = 1
    /\ last.args[1] = last.args[2]
    /\ last.pre = 1
    /\ fuelPrices[1].price = last.args[1][1].price
    /\ now - fuelPrices[1].recordedAt > HourMs
    /\ Len(fuelPrices) = 2
    /\ last.ret[1].ids = <<2>>
    /\ last.ret[2].ids = <<2>>

\* A call is answered 401 and clears the token of the object: the token it
\* clears is the token it was rejected with.
ClearsRejectedToken ==
    /\ (client.pc = "request" /\ client'.pc = "token" /\ client.accessToken # 0)
            => client.accessToken = client.token
    /\ (client.peer.pc = "request" /\ client'.peer.pc = "token"
            /\ client.accessToken # 0)
            => client.accessToken = client.peer.token

\* A call is handed a token: it is the token the object holds.
HandedTokenHeld ==
    /\ (client.pc = "token" /\ client'.pc = "request")
            => client'.token = client'.accessToken
    /\ (client.peer.pc = "token" /\ client'.peer.pc = "request")
            => client'.peer.token = client'.accessToken

\* C30: token refresh is coordinated between concurrent calls on one
\* FuelFinderClient: a call answered 401 clears no token but the one it was
\* rejected with, so that a token obtained by another call after that 401
\* stays, and the token a call is handed is one the object holds, not one
\* that has been cleared.
C30_RefreshCoordinated == [][ClearsRejectedToken /\ HandedTokenHeld]_vars

----------------------------------------------------------------------------
(* Claims about the daemon *)

\* The runs of the process that have been called and have not returned
RunsInFlight ==
    {k \in 1..Len(run.others) : InFlight(run.others[k])}
        \cup (IF InFlight(run) THEN {0} ELSE {})

\* C31: the runs of the daemon do not nest: at most one syncPrices run of
\* the daemon is in flight at any time, so that a timer tick during a run
\* starts no second run beside it.
C31_RunsDoNotNest ==
    run.kind = "daemon" => Cardinality(RunsInFlight) <= 1

\* A run is awaiting the answer to batchAddPrices for the chunk it has sent
ChunkInFlight ==
    \/ run.pc = "write"
    \/ \E k \in 1..Len(run.others) : run.others[k].pc = "write"

\* C32: on SIGINT the daemon lets the run in flight finish the chunk it is
\* writing: the process never exits between the start and the completion of
\* a chunk write.
C32_NoExitInsideChunk ==
    [][(run.kind = "daemon" /\ run.pc # "exited" /\ run'.pc = "exited")
            => ~ChunkInFlight]_vars

\* C33: every run of syncStations or syncPrices terminates and leaves its
\* SyncRun in status completed or failed, whatever the upstream answers to
\* the requests, an upstream of full batches only included.
C33_EveryRunTerminates ==
    (run.pc = "token") ~>
        (/\ run.pc = "done"
         /\ run.kind \in ConvexKinds
                => syncLog[run.syncId].status \in {"completed", "failed"})

----------------------------------------------------------------------------
(* Claims about the station lookups of the price syncs *)

\* ceil(n / LookupCap)
SlicesOf(n) == (n + LookupCap - 1) \div LookupCap

\* C34: every store lookup call of a price sync carries at most 500 external
\* ids, and resolving n distinct external ids takes ceil(n / 500) calls, in
\* every price-sync entry point
C34_BulkLookupOnly ==
    last.op = "resolveStations" =>
        LET n == Len(UniqueIn(last.args.ids, 1, Len(last.args.ids)))
        IN  /\ \A k \in 1..Len(last.ret) : Len(last.ret[k]) <= LookupCap
            /\ Len(last.ret) = SlicesOf(n)

----------------------------------------------------------------------------
(* Claims about the order of the candidates of a batch *)

\* The orders of the candidates as[1..n] that keep the order of the
\* candidates of each (stationId, fuelType) key: p[i] is the place in `as` of
\* the candidate at place i
KeyOrderKeeping(as) ==
    {p \in [1..Len(as) -> 1..Len(as)] :
        /\ \A i, j \in 1..Len(as) : i # j => p[i] # p[j]
        /\ \A i, j \in 1..Len(as) :
              (/\ i < j
               /\ as[p[i]].stationId = as[p[j]].stationId
               /\ as[p[i]].fuelType = as[p[j]].fuelType) => p[i] < p[j]}

\* An observation without its generated id
Observed(r) ==
    [stationId |-> r.stationId, fuelType |-> r.fuelType, price |-> r.price,
     recordedAt |-> r.recordedAt, sourceTimestamp |-> r.sourceTimestamp]

\* The rows of two tables are the same observations, each as many times
SameObservations(rows1, rows2) ==
    \A o \in {Observed(rows1[i]) : i \in 1..Len(rows1)}
             \cup {Observed(rows2[i]) : i \in 1..Len(rows2)} :
        Cardinality({i \in 1..Len(rows1) : Observed(rows1[i]) = o})
            = Cardinality({i \in 1..Len(rows2) : Observed(rows2[i]) = o})

\* C35: the decisions of batchAddPrices for distinct (stationId, fuelType)
\* keys commute: the same candidates at the same ingestion time, in any order
\* that keeps the order within each key, get the same write / no-write
\* decision each and leave the same observations stored, up to their ids
C35_KeysCommute ==
    [][(last'.op = "batchAddPrices" /\ now' = now) =>
         LET as == last'.args
         IN  \A p \in KeyOrderKeeping(as) :
                LET r == BatchAddTo(fuelPrices, priceIds,
                                    [i \in 1..Len(as) |-> as[p[i]]], now)
                IN  /\ \A i \in 1..Len(as) :
                          (r.ret[i] > priceIds) = (last'.ret[p[i]] > priceIds)
                    /\ SameObservations(r.prices, fuelPrices')]_vars

\* A batch of two candidates of different keys has been applied to a table
\* that held an observation: the first was not written, the second was
C35_Witness ==
    /\ last.op = "batchAddPrices"
    /\ Len(last.args) = 2
    /\ last.args[1].fuelType # last.args[2].fuelType
    /\ last.pre = 1
    /\ last.ret[1] = 1
    /\ last.ret[2] = 2
    /\ Len(fuelPrices) = 2

----------------------------------------------------------------------------
(* Claims about the capped fetch *)

\* C36: the capped price fetch of the cron handler and of the daemon never
\* ends on a full batch: when the loop has been left, the last batch received
\* was empty or had fewer than 500 records (stated here for the runs whose
\* batch requests were all answered 2xx)
C36_CappedFetchComplete ==
    (/\ run.kind \in {"cron", "daemon"}
     /\ FetchOver
     /\ run.reqs # <<>>
     /\ ~FetchFailed)
    => run.reqs[Len(run.reqs)].size < FullBatch

----------------------------------------------------------------------------
(* Claims about the fields of a station that is upserted again *)

\* C37: re-upserting a station replaces its descriptive fields by the latest
\* input: an optional field (brand) that the latest input leaves out is
\* absent from the stored record afterwards
C37_OptionalFieldsReplaced ==
    last.op \in {"upsertStation", "batchUpsertStations"} =>
        \A k \in 1..Len(last.args) :
            LET e == last.args[k].externalId
            IN  LatestFor(last.args, e).brand = Absent =>
                    \A i \in RowsOf(e) : stations[i].brand = Absent

----------------------------------------------------------------------------
(* Claims about the external ids of the fetched stations *)

\* C38: a station sync maps distinct fetched records to distinct externalIds,
\* the records without an id field included, so that a sync into an empty
\* store leaves as many stations as it counts in stationsProcessed
C38_DistinctExternalIds ==
    last.op = "syncStationRecords" => Len(stations) = last.ret[1]

----------------------------------------------------------------------------
(* Claims about the cron handler's authorization *)

\* The request that has arrived is answered 401 with no fetch and no write
Refused ==
    /\ run.pc = "done"
    /\ run.result = "unauthorized"
    /\ run.reqs = <<>>
    /\ priceIds = run.pricesBefore

\* C39: the cron handler fetches or writes only if the Authorization header
\* is 'Bearer ' followed by the configured CRON_SECRET: every other request,
\* and every request when CRON_SECRET is not configured, is answered 401 and
\* stays without a fetch and without a write
C39_OnlyWithSecret ==
    /\ [][(last'.op = "cronRequest" /\ run'.no = run.no + 1) =>
            \/ /\ last'.args.secret # Unset
               /\ last'.args.header = <<"Bearer ", last'.args.secret>>
            \/ Refused']_vars
    /\ [](run.result = "unauthorized" => Refused)

============================================================================
